---- MODULE Spec2Model ----
(***************************************************************************)
(* Model of the ShotGrid -> Resilio Connect reconciliation engine          *)
(* (functions/resilio_state_sync.py, functions/api.py).                    *)
(*                                                                         *)
(* Python strings that the code concatenates, searches or compares are     *)
(* sequences of one-character strings, so that f-string naming, prefix     *)
(* and substring tests and str.replace are computed, not assumed.  Artist  *)
(* names are only dictionary keys in the code and stay opaque strings.     *)
(***************************************************************************)
EXTENDS Integers, Sequences, FiniteSets, TLC

----------------------------------------------------------------------------
(* Bounds of the model *)

\* longest shots list of a snapshot
MaxShots == 2
\* most jobs the orchestration system holds before the first run
MaxRemote == 2
\* number of reconciliation runs in a behaviour
MaxRuns == 2
\* most remote requests that fail in a behaviour
MaxFailures == 1
\* longest shots list of a snapshot given to two runs at the same time
MaxConcShots == 1

----------------------------------------------------------------------------
(* String helpers: Python str operations on character sequences *)

\* s.startswith(p)
StartsWith(s, p) == Len(s) >= Len(p) /\ SubSeq(s, 1, Len(p)) = p

\* sub in s
Contains(s, sub) ==
    \E i \in 1..(Len(s) - Len(sub) + 1) : SubSeq(s, i, i + Len(sub) - 1) = sub

\* mutant: only the first occurrence is replaced
Replace_First(s, old, new) ==
    IF Len(old) = 0 \/ ~Contains(s, old) THEN s
    ELSE LET at == CHOOSE i \in 1..(Len(s) - Len(old) + 1) :
                      /\ SubSeq(s, i, i + Len(old) - 1) = old
                      /\ \A k \in 1..(i - 1) : SubSeq(s, k, k + Len(old) - 1) # old
         IN  SubSeq(s, 1, at - 1) \o new \o SubSeq(s, at + Len(old), Len(s))

\* s.replace(old, new): every non-overlapping occurrence, left to right
RECURSIVE Replace(_, _, _)
Replace(s, old, new) ==
    IF Len(s) < Len(old) \/ Len(old) = 0 THEN s
    ELSE IF SubSeq(s, 1, Len(old)) = old
         THEN new \o Replace(SubSeq(s, Len(old) + 1, Len(s)), old, new)
         ELSE <<Head(s)>> \o Replace(Tail(s), old, new)

LowerChar(c) ==
    CASE c = "A" -> "a" [] c = "B" -> "b" [] c = "D" -> "d" [] c = "N" -> "n"
      [] c = "O" -> "o" [] c = "S" -> "s"
      [] OTHER -> c

\* s.lower()
Lower(s) == [i \in 1..Len(s) |-> LowerChar(s[i])]

----------------------------------------------------------------------------
(* Literals of the source *)

HybridPrefix == <<"H","y","b","r","i","d","W","o","r","k","_">>
AssetsSuffix == <<"_","A","s","s","e","t","s">>
VarProject   == <<"$","{","P","R","O","J","E","C","T","}">>
VarSequence  == <<"$","{","S","E","Q","U","E","N","C","E","}">>
VarShot      == <<"$","{","S","H","O","T","}">>
Slash        == <<"/">>
Backslash    == <<"\\">>

\* the "no value" of Python: None, "" or a missing key
None == <<>>

----------------------------------------------------------------------------
(* Configuration (artists.yaml) and the agent directory (GET /agents) *)

ConfigIds == {"primary_by_id", "primary_by_name"}

\* agent_id 0 stands for an agent_id that is missing or empty (falsy)
Config(c) ==
    [ primary_storage |->
        [ agent_id   |-> IF c = "primary_by_id" THEN 1 ELSE 0,
          agent_name |-> <<"n","a","s">>,
          base_path  |-> <<"/","n">> ],
      target_agents |->
        [ a \in {"A", "B", "D"} |->
            CASE a = "A" -> [agent_id |-> 42, agent_name |-> None,
                             base_path |-> <<"/","a">>]
              [] a = "B" -> [agent_id |-> 0, agent_name |-> <<"B","o","b">>,
                             base_path |-> <<"/","b">>]
              [] a = "D" -> [agent_id |-> 0, agent_name |-> <<"d","a","n">>,
                             base_path |-> <<"/","d">>] ],
      path_templates |->
        [ shots_template  |-> VarProject \o Slash \o VarSequence \o Slash \o VarShot,
          assets_template |-> VarProject \o <<"/","l","i","b">> ] ]

\* what GET /agents lists
AgentDirectory ==
    << [id |-> 1, name |-> <<"N","A","S">>],
       [id |-> 7, name |-> <<"b","o","b">>] >>

NoAgent == [id |-> 0, name |-> None]

VARIABLE directory     \* agent directory: what GET /agents lists

----------------------------------------------------------------------------
(* Agent Resolver *)

\* mutant: the names are compared as they are written
RECURSIVE FirstAgentNamed_Exact(_, _, _)
FirstAgentNamed_Exact(agents, agent_name, i) ==
    IF i > Len(agents) THEN NoAgent
    ELSE IF agents[i].name = agent_name THEN agents[i]
    ELSE FirstAgentNamed_Exact(agents, agent_name, i + 1)

\* for agent in agents: if agent.get("name", "").lower() == agent_name.lower()
RECURSIVE FirstAgentNamed(_, _, _)
FirstAgentNamed(agents, agent_name, i) ==
    IF i > Len(agents) THEN NoAgent
    ELSE IF Lower(agents[i].name) = Lower(agent_name) THEN agents[i]
    ELSE FirstAgentNamed(agents, agent_name, i + 1)

\* up: whether the GET /agents request succeeds (an ApiError gives None)
find_agent_by_name(agent_name, up) ==
    IF up THEN FirstAgentNamed(directory, agent_name, 1) ELSE NoAgent

\* The body shared by get_primary_storage_agent_id and get_target_agent_id:
\* the configured id if there is one, else the id of the agent the name lookup
\* found.  ok = FALSE stands for the raised ApiError; asked: the lookup was made.
ConfiguredOrFound(agent_id, agent) ==
    IF agent_id # 0 THEN [ok |-> TRUE, id |-> agent_id, asked |-> FALSE]
    ELSE IF agent = NoAgent THEN [ok |-> FALSE, id |-> 0, asked |-> TRUE]
    ELSE [ok |-> TRUE, id |-> agent.id, asked |-> TRUE]

get_primary_storage_agent_id(config, up) ==
    ConfiguredOrFound(config.primary_storage.agent_id,
                      find_agent_by_name(config.primary_storage.agent_name, up))

get_target_agent_id(config, artist, up) ==
    ConfiguredOrFound(config.target_agents[artist].agent_id,
                      find_agent_by_name(config.target_agents[artist].agent_name, up))

----------------------------------------------------------------------------
(* Path Template Renderer *)

build_primary_storage_path(config, project_tank_name, sequence, shot_name) ==
    config.primary_storage.base_path \o Slash \o
    Replace(Replace(Replace(config.path_templates.shots_template,
        VarProject, project_tank_name), VarSequence, sequence), VarShot, shot_name)

build_target_agent_path(config, artist, project_tank_name, sequence, shot_name) ==
    config.target_agents[artist].base_path \o Slash \o
    Replace(Replace(Replace(config.path_templates.shots_template,
        VarProject, project_tank_name), VarSequence, sequence), VarShot, shot_name)

build_primary_assets_path(config, project_tank_name) ==
    config.primary_storage.base_path \o Slash \o
    Replace(config.path_templates.assets_template, VarProject, project_tank_name)

build_target_assets_path(config, artist, project_tank_name) ==
    config.target_agents[artist].base_path \o Slash \o
    Replace(config.path_templates.assets_template, VarProject, project_tank_name)

\* the 'path' dictionary of an agent entry
OsPaths(p) == [linux |-> p, win |-> Replace(p, Slash, Backslash), osx |-> p]

EndUserAgent(agent_id, path) ==
    [id |-> agent_id, role |-> "enduser", permission |-> "srw", path |-> OsPaths(path)]

\* mutant: the primary storage entry is given the role of an end user
PrimaryAgent_AsEndUser(agent_id, path) ==
    [id |-> agent_id, role |-> "enduser", permission |-> "rw", path |-> OsPaths(path)]

PrimaryAgent(agent_id, path) ==
    [id |-> agent_id, role |-> "primary_storage", permission |-> "rw",
     path |-> OsPaths(path)]

----------------------------------------------------------------------------
(* Desired-State Builder *)

\* mutant: the code and the tank name change places
ShotJobName_Swapped(project_tank, shot_code) ==
    HybridPrefix \o shot_code \o <<"_">> \o project_tank

\* f"HybridWork_{project_tank}_{shot_code}"
ShotJobName(project_tank, shot_code) == HybridPrefix \o project_tank \o <<"_">> \o shot_code

\* f"HybridWork_{project_tank}_Assets"
AssetsJobName(project_tank) == HybridPrefix \o project_tank \o AssetsSuffix

\* f"{project_tank}_{shot_code}"
ShotKey(project_tank, shot_code) == project_tank \o <<"_">> \o shot_code

\* [artist for artist in ... if artist in self.config.get("target_agents", {})]
ValidArtists(config, artists) ==
    SelectSeq(artists, LAMBDA a : a \in DOMAIN config.target_agents)

\* dict[key] = value
DictPut(d, k, v) == [x \in (DOMAIN d) \cup {k} |-> IF x = k THEN v ELSE d[x]]

EmptyDict == [x \in {} |-> None]

Range(seq) == {seq[i] : i \in 1..Len(seq)}

BuildError(what, name) == [op |-> what, name |-> name, kind |-> "ApiError"]

\* end_user_agents.append({...}) after a lookup; a lookup that raised ends the
\* loop of its job (ok = FALSE)
WithEndUser(target, path, rest) ==
    IF ~target.ok THEN [ok |-> FALSE, asked |-> TRUE, agents |-> <<>>]
    ELSE [ok     |-> rest.ok,
          asked  |-> target.asked \/ rest.asked,
          agents |-> <<EndUserAgent(target.id, path)>> \o rest.agents]

\* lines 551-567: the end-user agents of a shot job, artist by artist.
\* up: the directory requests of this job succeed.
RECURSIVE ShotEndUsers(_, _, _, _, _, _, _)
ShotEndUsers(config, artists, project_tank, sequence, shot_code, up, i) ==
    IF i > Len(artists) THEN [ok |-> TRUE, asked |-> FALSE, agents |-> <<>>]
    ELSE WithEndUser(
             get_target_agent_id(config, artists[i], up),
             build_target_agent_path(config, artists[i], project_tank, sequence,
                                     shot_code),
             ShotEndUsers(config, artists, project_tank, sequence, shot_code, up,
                          i + 1))

\* lines 569-593: the expected job, the primary storage agent first
JobConfig(name, type, artists, project, shot, primary_id, primary_path, end_user) ==
    [ok    |-> end_user.ok,
     asked |-> end_user.asked,
     job   |-> [name         |-> name,
                type         |-> type,
                artists      |-> artists,
                project      |-> project,
                shot         |-> shot,
                primary_path |-> primary_path,
                agents       |-> <<PrimaryAgent(primary_id, primary_path)>>
                                 \o end_user.agents]]

\* lines 546-593: the job configuration of one shot
ShotJobConfig(config, primary_storage_agent_id, shot, valid_artists, up) ==
    JobConfig(ShotJobName(shot.project.tank_name, shot.code), "shot",
              valid_artists, shot.project.tank_name, shot.code,
              primary_storage_agent_id,
              build_primary_storage_path(config, shot.project.tank_name,
                                         shot.sequence, shot.code),
              ShotEndUsers(config, valid_artists, shot.project.tank_name,
                           shot.sequence, shot.code, up, 1))

\* mutant: a job whose build failed leaves no entry in results['errors']
AfterEntry_Unrecorded(acc, what, key, label, skip, artists, built) ==
    IF key \in acc.processed THEN acc
    ELSE IF skip
    THEN [acc EXCEPT !.processed = IF what = "build_shot" THEN @ \cup {key} ELSE @]
    ELSE IF built.ok
    THEN [acc EXCEPT !.processed = @ \cup {key},
                     !.asked     = IF built.asked THEN @ \cup {<<what, key>>} ELSE @,
                     !.jobs      = DictPut(@, built.job.name, built.job),
                     !.artists   = @ \cup Range(artists)]
    ELSE [acc EXCEPT !.processed = @ \cup {key},
                     !.asked     = @ \cup {<<what, key>>}]

\* mutant: the artists of a job whose build failed are counted as well
AfterEntry_CountsFailed(acc, what, key, label, skip, artists, built) ==
    IF key \in acc.processed THEN acc
    ELSE IF skip
    THEN [acc EXCEPT !.processed = IF what = "build_shot" THEN @ \cup {key} ELSE @]
    ELSE IF built.ok
    THEN [acc EXCEPT !.processed = @ \cup {key},
                     !.asked     = IF built.asked THEN @ \cup {<<what, key>>} ELSE @,
                     !.jobs      = DictPut(@, built.job.name, built.job),
                     !.artists   = @ \cup Range(artists)]
    ELSE [acc EXCEPT !.processed = @ \cup {key},
                     !.asked     = @ \cup {<<what, key>>},
                     !.artists   = @ \cup Range(artists),
                     !.errors    = Append(@, BuildError(what, label))]

\* What one pass of a building loop does to its accumulators: jobs is the
\* dictionary of expected jobs, processed the keys seen, errors
\* results['errors'], artists results['artists_processed'], asked the jobs
\* whose build asked the directory.  key: the entry's key; skip: no artist of
\* the entry is configured; built: its job configuration.
AfterEntry(acc, what, key, label, skip, artists, built) ==
    IF key \in acc.processed THEN acc
    ELSE IF skip
    THEN \* a shot is marked as processed before its artists are looked at
         \* (line 534), a project only after (line 622)
         [acc EXCEPT !.processed = IF what = "build_shot" THEN @ \cup {key} ELSE @]
    ELSE IF built.ok
    THEN [acc EXCEPT !.processed = @ \cup {key},
                     !.asked     = IF built.asked THEN @ \cup {<<what, key>>} ELSE @,
                     !.jobs      = DictPut(@, built.job.name, built.job),
                     !.artists   = @ \cup Range(artists)]
    ELSE [acc EXCEPT !.processed = @ \cup {key},
                     !.asked     = @ \cup {<<what, key>>},
                     !.errors    = Append(@, BuildError(what, label))]

\* lines 525-600: one pass of the loop over sg_state['shots'].
\* down: the jobs whose directory request fails.
ShotEntry(config, primary_storage_agent_id, shot, valid_artists, shot_key, down, acc) ==
    AfterEntry(acc, "build_shot", shot_key, shot.code, valid_artists = <<>>,
               valid_artists,
               ShotJobConfig(config, primary_storage_agent_id, shot, valid_artists,
                             <<"build_shot", shot_key>> \notin down))

\* lines 523-600: the loop over sg_state['shots']
RECURSIVE BuildShotJobs(_, _, _, _, _, _)
BuildShotJobs(config, primary_storage_agent_id, shots, down, i, acc) ==
    IF i > Len(shots) THEN acc
    ELSE BuildShotJobs(config, primary_storage_agent_id, shots, down, i + 1,
             ShotEntry(config, primary_storage_agent_id, shots[i],
                       ValidArtists(config, shots[i].assigned_artists),
                       ShotKey(shots[i].project.tank_name, shots[i].code),
                       down, acc))

\* lines 628-644: the end-user agents of an assets job
RECURSIVE AssetsEndUsers(_, _, _, _, _)
AssetsEndUsers(config, artists, project_tank, up, i) ==
    IF i > Len(artists) THEN [ok |-> TRUE, asked |-> FALSE, agents |-> <<>>]
    ELSE WithEndUser(
             get_target_agent_id(config, artists[i], up),
             build_target_assets_path(config, artists[i], project_tank),
             AssetsEndUsers(config, artists, project_tank, up, i + 1))

\* lines 624-669: the job configuration of one project's assets
AssetsJobConfig(config, primary_storage_agent_id, project_tank, project_artists, up) ==
    JobConfig(AssetsJobName(project_tank), "assets", project_artists,
              project_tank, None, primary_storage_agent_id,
              build_primary_assets_path(config, project_tank),
              AssetsEndUsers(config, project_artists, project_tank, up, 1))

\* mutant: only the first artist of the project is taken
ProjectArtists_First(config, artist_projects, project_tank) ==
    LET listed == SelectSeq(artist_projects,
                      LAMBDA e : /\ project_tank \in Range(e.projects)
                                 /\ e.artist \in DOMAIN config.target_agents)
    IN  [k \in 1..(IF listed = <<>> THEN 0 ELSE 1) |-> listed[k].artist]

\* [a for a, projs in artist_projects.items()
\*    if project_tank in projs and a in target_agents]   (lines 614-617)
ProjectArtists(config, artist_projects, project_tank) ==
    LET listed == SelectSeq(artist_projects,
                      LAMBDA e : /\ project_tank \in Range(e.projects)
                                 /\ e.artist \in DOMAIN config.target_agents)
    IN  [k \in 1..Len(listed) |-> listed[k].artist]

\* lines 608-676: one pass of the inner loop, over the projects of an artist
AssetsEntry(config, primary_storage_agent_id, project_tank, project_artists, down, acc) ==
    AfterEntry(acc, "build_assets", project_tank, project_tank,
               project_artists = <<>>, project_artists,
               AssetsJobConfig(config, primary_storage_agent_id, project_tank,
                               project_artists,
                               <<"build_assets", project_tank>> \notin down))

\* lines 602-676: the loops over sg_state['artist_projects'].items() (index i)
\* and over each artist's projects (index j); an artist that is not configured
\* is passed over
RECURSIVE BuildAssetsJobs(_, _, _, _, _, _, _)
BuildAssetsJobs(config, primary_storage_agent_id, artist_projects, down, i, j, acc) ==
    IF i > Len(artist_projects) THEN acc
    ELSE IF artist_projects[i].artist \notin DOMAIN config.target_agents
            \/ j > Len(artist_projects[i].projects)
    THEN BuildAssetsJobs(config, primary_storage_agent_id, artist_projects, down,
                         i + 1, 1, acc)
    ELSE BuildAssetsJobs(config, primary_storage_agent_id, artist_projects, down,
             i, j + 1,
             AssetsEntry(config, primary_storage_agent_id,
                         artist_projects[i].projects[j],
                         ProjectArtists(config, artist_projects,
                                        artist_projects[i].projects[j]),
                         down, acc))

\* {**expected_shot_jobs, **expected_assets_jobs}   (line 679)
DictMerge(d1, d2) ==
    [x \in (DOMAIN d1) \cup (DOMAIN d2) |-> IF x \in DOMAIN d2 THEN d2[x] ELSE d1[x]]

NothingBuilt ==
    [jobs |-> EmptyDict, processed |-> {}, errors |-> <<>>, artists |-> {},
     asked |-> {}]

\* what Step 2 leaves behind
Built(shot_part, assets_part) ==
    [expected_shot_jobs   |-> shot_part.jobs,
     expected_assets_jobs |-> assets_part.jobs,
     all_expected_jobs    |-> DictMerge(shot_part.jobs, assets_part.jobs),
     errors               |-> assets_part.errors,
     artists_processed    |-> assets_part.artists,
     asked                |-> assets_part.asked]

\* the assets loop starts with its own dictionary and key set and goes on with
\* the errors and artists of the shots loop
AssetsAfterShots(config, primary_storage_agent_id, sg_state, down, shot_part) ==
    Built(shot_part,
          BuildAssetsJobs(config, primary_storage_agent_id,
                          sg_state.artist_projects, down, 1, 1,
                          [shot_part EXCEPT !.jobs = EmptyDict, !.processed = {}]))

\* Step 2 as a whole (lines 519-679)
BuildExpectedJobs(config, primary_storage_agent_id, sg_state, down) ==
    AssetsAfterShots(config, primary_storage_agent_id, sg_state, down,
        BuildShotJobs(config, primary_storage_agent_id, sg_state.shots, down, 1,
                      NothingBuilt))

----------------------------------------------------------------------------
(* Tracking-system snapshot *)

ArtistNames == {"A", "B", "C", "D"}

\* the artists whose projects a snapshot lists: all of them, one, none
ListedArtists == {ArtistNames, {"A"}, {}}

Shot(tank, code, artists) ==
    [code |-> code, project |-> [tank_name |-> tank], sequence |-> <<"S","Q">>,
     assigned_artists |-> artists]

\* the shots a snapshot is drawn from: A has a configured agent id, B and D
\* a configured agent name (D's is not in the directory), C is not configured;
\* Q/S1 is listed with two different assignments; A has a second shot in P,
\* whose code is the word the assets jobs are named with
ShotPool ==
    { Shot(<<"P">>, <<"S","1">>, <<"A", "C">>),
      Shot(<<"P">>, <<"A","s","s","e","t","s">>, <<"A">>),
      Shot(<<"P">>, <<"S","2">>, <<"B">>),
      Shot(<<"Q">>, <<"S","1">>, <<"C">>),
      Shot(<<"Q">>, <<"S","1">>, <<"B">>),
      Shot(<<"P">>, <<"S","3">>, <<"D">>) }

ShotLists == UNION {[1..n -> ShotPool] : n \in 0..MaxShots}

\* artist_projects[artist].add(tank_name), artist by artist (lines 340-351, 365-366)
RECURSIVE AddArtists(_, _, _, _)
AddArtists(artist_projects, artists, tank_name, k) ==
    IF k > Len(artists) THEN artist_projects
    ELSE LET a   == artists[k]
             at  == {i \in 1..Len(artist_projects) : artist_projects[i].artist = a}
             new == IF at = {}
                    THEN Append(artist_projects,
                                [artist |-> a, projects |-> <<tank_name>>])
                    ELSE [i \in 1..Len(artist_projects) |->
                            IF i \in at /\ tank_name \notin Range(artist_projects[i].projects)
                            THEN [artist_projects[i] EXCEPT
                                     !.projects = Append(@, tank_name)]
                            ELSE artist_projects[i]]
         IN  AddArtists(new, artists, tank_name, k + 1)

\* the artist_projects that get_active_shots_with_assignments returns for shots
RECURSIVE ArtistProjectsOf(_, _, _)
ArtistProjectsOf(shots, i, artist_projects) ==
    IF i > Len(shots) THEN artist_projects
    ELSE ArtistProjectsOf(shots, i + 1,
             AddArtists(artist_projects, shots[i].assigned_artists,
                        shots[i].project.tank_name, 1))

----------------------------------------------------------------------------
(* Orchestration system: the jobs it holds *)

OldAgents(enduser_id) ==
    << PrimaryAgent(1, <<"/","o">>), EndUserAgent(enduser_id, <<"/","o","/","x">>) >>

\* jobs that may exist before the first run
RemotePool ==
    << [name |-> ShotJobName(<<"P">>, <<"S","1">>), agents |-> OldAgents(42)],
       [name |-> ShotJobName(<<"P">>, <<"S","2">>), agents |-> OldAgents(42)],
       [name |-> ShotJobName(<<"Q">>, <<"S","1">>), agents |-> OldAgents(42)],
       [name |-> AssetsJobName(<<"P">>),            agents |-> OldAgents(42)],
       [name |-> <<"B","a","c","k","u","p">>,       agents |-> OldAgents(7)] >>

\* the server-side job of a request body; created_at stands for the
\* read-only properties the server adds
RemoteJob(id, name, agents) ==
    [id |-> id, name |-> name, agents |-> agents, created_at |-> 1]

RECURSIVE PickJobs(_, _, _)
PickJobs(chosen, k, acc) ==
    IF k > Len(RemotePool) THEN acc
    ELSE IF k \in chosen
         THEN PickJobs(chosen, k + 1,
                  Append(acc, RemoteJob(Len(acc) + 1, RemotePool[k].name,
                                        RemotePool[k].agents)))
         ELSE PickJobs(chosen, k + 1, acc)

FailureKinds == {"ApiConnectionError", "ApiUnauthorizedError", "ApiError"}
Outcomes == {"ok"} \cup FailureKinds

----------------------------------------------------------------------------
(* State *)

VARIABLES
    cfg,            \* which artists.yaml is loaded
    sg_state,       \* the snapshot every run is given
    jobs,           \* orchestration system: its job list, in listing order
    nextId,         \* orchestration system: the id of the next created job
    failures,       \* remote requests that have failed so far
    pc,             \* per run: position in sync_resilio_to_shotgrid_state
    jobs_at_start,  \* per run: the job list when the run was entered (history)
    primary,        \* per run: primary_storage_agent_id
    existing_jobs,  \* per run: the list get_all_hybrid_work_jobs returned
    expected,       \* per run: all_expected_jobs
    plan,           \* per run: jobs_to_delete, jobs_to_create, jobs_to_check_update
    todo,           \* per run: the names each of the three loops has yet to visit
    pending,        \* per run: the job body update_job_agents is about to PUT
    results,        \* per run: the results dictionary
    calls,          \* per run: the /jobs requests issued, in order
    query,          \* a function called on its own: its arguments
    resolved        \* a function called on its own: what it returned

vars == <<cfg, sg_state, jobs, nextId, failures, pc, jobs_at_start, primary, existing_jobs,
          expected, plan, todo, pending, results, calls, directory, query, resolved>>

Runs == 1..MaxRuns

NoSets == [delete |-> {}, create |-> {}, check |-> {}]

\* lines 503-513
\* results['artists_processed'] is a set until line 793 and a number after it:
\* the value is kept together with its Python type
AsSet(members) == [set |-> members]
AsInt(number) == [int |-> number]

\* mutant: the result starts with one shot job counted as created
NewResults_Miscounted ==
    [shot_jobs_created |-> 1, shot_jobs_updated |-> 0, shot_jobs_deleted |-> 0,
     assets_jobs_created |-> 0, assets_jobs_updated |-> 0, assets_jobs_deleted |-> 0,
     artists_processed |-> AsSet({}), errors |-> <<>>, details |-> <<>>]

NewResults ==
    [shot_jobs_created |-> 0, shot_jobs_updated |-> 0, shot_jobs_deleted |-> 0,
     assets_jobs_created |-> 0, assets_jobs_updated |-> 0, assets_jobs_deleted |-> 0,
     artists_processed |-> AsSet({}), errors |-> <<>>, details |-> <<>>]

\* mutant: the early return carries no error
AbortResults_Silent ==
    [shot_jobs_created |-> 0, shot_jobs_updated |-> 0, shot_jobs_deleted |-> 0,
     assets_jobs_created |-> 0, assets_jobs_updated |-> 0, assets_jobs_deleted |-> 0,
     errors |-> <<>>, details |-> <<>>]

\* lines 492-501: the dictionary returned when primary storage is not resolved
AbortResults ==
    [shot_jobs_created |-> 0, shot_jobs_updated |-> 0, shot_jobs_deleted |-> 0,
     assets_jobs_created |-> 0, assets_jobs_updated |-> 0, assets_jobs_deleted |-> 0,
     errors |-> <<[op |-> "primary", name |-> None, kind |-> "ApiError"]>>,
     details |-> <<>>]

Call(op, id, name, outcome) == [op |-> op, id |-> id, name |-> name, outcome |-> outcome]

\* {job.get('name'): job for job in existing_jobs}: a later entry of the list
\* replaces an earlier one of the same name
ExistingJobNames(list) ==
    [n \in {list[i].name : i \in 1..Len(list)} |->
        list[CHOOSE i \in 1..Len(list) :
                /\ list[i].name = n
                /\ \A k \in 1..Len(list) : list[k].name = n => k <= i]]

\* mutant: the inventory keeps the jobs without the prefix
get_all_hybrid_work_jobs_Others(all_jobs, outcome) ==
    IF outcome = "ok"
    THEN SelectSeq(all_jobs, LAMBDA job : ~StartsWith(job.name, HybridPrefix))
    ELSE <<>>

\* mutant: the inventory is the whole job list, whatever the names
get_all_hybrid_work_jobs_Unfiltered(all_jobs, outcome) ==
    IF outcome = "ok" THEN all_jobs ELSE <<>>

\* mutant: the inventory comes back empty whatever the request returned
get_all_hybrid_work_jobs_Blind(all_jobs, outcome) == <<>>

\* api.get_all_hybrid_work_jobs(): the listed jobs whose name has the prefix,
\* or [] when the request fails
get_all_hybrid_work_jobs(all_jobs, outcome) ==
    IF outcome = "ok"
    THEN SelectSeq(all_jobs, LAMBDA job : StartsWith(job.name, HybridPrefix))
    ELSE <<>>

EndUserIds(agents) == {agents[i].id : i \in {k \in 1..Len(agents) : agents[k].role = "enduser"}}

\* mutant: the comparison looks at the whole end-user entries, paths included
compare_job_agents_WithPaths(job, expected_agents) ==
    {job.agents[i] : i \in {k \in 1..Len(job.agents) : job.agents[k].role = "enduser"}}
    = {expected_agents[i] :
         i \in {k \in 1..Len(expected_agents) : expected_agents[k].role = "enduser"}}

\* api.compare_job_agents(job, expected_agents)
compare_job_agents(job, expected_agents) ==
    EndUserIds(job.agents) = EndUserIds(expected_agents)

\* mutant: every existing job is to be deleted
JobsToDelete_All(all_expected_jobs, existing_job_names) == DOMAIN existing_job_names

\* mutant: nothing is to be created
JobsToCreate_None(all_expected_jobs, existing_job_names) == {}

\* mutant: nothing is to be deleted
JobsToDelete_None(all_expected_jobs, existing_job_names) == {}

\* mutant: no existing job is checked for an update
JobsToCheckUpdate_None(all_expected_jobs, existing_job_names) == {}

\* lines 683, 686, 689
JobsToDelete(all_expected_jobs, existing_job_names) ==
    (DOMAIN existing_job_names) \ (DOMAIN all_expected_jobs)
JobsToCreate(all_expected_jobs, existing_job_names) ==
    (DOMAIN all_expected_jobs) \ (DOMAIN existing_job_names)
JobsToCheckUpdate(all_expected_jobs, existing_job_names) ==
    (DOMAIN all_expected_jobs) \cap (DOMAIN existing_job_names)

\* positions of the job with this id in the orchestration system
Holding(id) == {i \in 1..Len(jobs) : jobs[i].id = id}

Without(list, at) ==
    LET keep == {i \in 1..Len(list) : i \notin at}
        F[i \in 0..Len(list)] ==
            IF i = 0 THEN <<>>
            ELSE IF i \in keep THEN Append(F[i - 1], list[i]) ELSE F[i - 1]
    IN  F[Len(list)]

\* a request fails when the model lets it fail, within the failure budget
MayFail(outcome) == outcome # "ok" => failures < MaxFailures
Spent(outcome) == IF outcome = "ok" THEN failures ELSE failures + 1

----------------------------------------------------------------------------
(* Initial state *)

Init ==
    /\ cfg \in ConfigIds
    /\ \E shots \in ShotLists, keep \in ListedArtists :
          sg_state = [shots |-> shots,
                      artist_projects |->
                          SelectSeq(ArtistProjectsOf(shots, 1, <<>>),
                                    LAMBDA e : e.artist \in keep)]
    /\ \E chosen \in SUBSET (1..Len(RemotePool)) :
          /\ Cardinality(chosen) <= MaxRemote
          /\ jobs = PickJobs(chosen, 1, <<>>)
    /\ nextId = Len(jobs) + 1
    /\ failures = 0
    /\ pc = [r \in Runs |-> "idle"]
    /\ jobs_at_start = [r \in Runs |-> <<>>]
    /\ primary = [r \in Runs |-> 0]
    /\ existing_jobs = [r \in Runs |-> <<>>]
    /\ expected = [r \in Runs |-> EmptyDict]
    /\ plan = [r \in Runs |-> NoSets]
    /\ todo = [r \in Runs |-> NoSets]
    /\ pending = [r \in Runs |-> None]
    /\ results = [r \in Runs |-> None]
    /\ calls = [r \in Runs |-> <<>>]
    /\ directory = AgentDirectory
    /\ query = None
    /\ resolved = None

----------------------------------------------------------------------------
(* sync_resilio_to_shotgrid_state, request by request *)

\* one reconciliation: the first run only
First(r) == r = 1

\* consecutive reconciliations: a run is entered when the runs before it
\* have returned
Consecutive(r) == \A q \in Runs : q < r => pc[q] = "done"

\* lines 486-513: resolve the primary storage agent; return at once if that fails
StartRun(r) ==
    /\ pc[r] = "idle"
    /\ jobs_at_start' = [jobs_at_start EXCEPT ![r] = jobs]
    /\ \E up \in BOOLEAN :
         LET got == get_primary_storage_agent_id(Config(cfg), up) IN
         /\ ~up => got.asked /\ failures < MaxFailures
         /\ failures' = IF up THEN failures ELSE failures + 1
         /\ IF got.ok
            THEN /\ primary' = [primary EXCEPT ![r] = got.id]
                 /\ results' = [results EXCEPT ![r] = NewResults]
                 /\ pc' = [pc EXCEPT ![r] = "fetch"]
            ELSE /\ results' = [results EXCEPT ![r] = AbortResults]
                 /\ pc' = [pc EXCEPT ![r] = "done"]
                 /\ UNCHANGED primary
    /\ UNCHANGED <<cfg, sg_state, jobs, nextId, existing_jobs, expected, plan,
                   todo, pending, calls>>

\* lines 515-517: Step 1, the inventory
FetchInventory(r) ==
    /\ pc[r] = "fetch"
    /\ \E outcome \in Outcomes :
         /\ MayFail(outcome)
         /\ failures' = Spent(outcome)
         /\ existing_jobs' = [existing_jobs EXCEPT
                                 ![r] = get_all_hybrid_work_jobs(jobs, outcome)]
         /\ calls' = [calls EXCEPT ![r] = Append(@, Call("GET_jobs", 0, None, outcome))]
    /\ pc' = [pc EXCEPT ![r] = "build"]
    /\ UNCHANGED <<cfg, sg_state, jobs_at_start, jobs, nextId, primary, expected, plan, todo,
                   pending, results>>

\* mutant: every expected job is planned for creation, listed or not
ThreeSets_CreateAll(all_expected_jobs, existing_job_names) ==
    [delete |-> JobsToDelete(all_expected_jobs, existing_job_names),
     create |-> DOMAIN all_expected_jobs,
     check  |-> JobsToCheckUpdate(all_expected_jobs, existing_job_names)]

\* mutant: only the deletions are planned
ThreeSets_DeleteOnly(all_expected_jobs, existing_job_names) ==
    [delete |-> JobsToDelete(all_expected_jobs, existing_job_names),
     create |-> {},
     check  |-> {}]

\* lines 683, 686, 689: the three name sets
ThreeSets(all_expected_jobs, existing_job_names) ==
    [delete |-> JobsToDelete(all_expected_jobs, existing_job_names),
     create |-> JobsToCreate(all_expected_jobs, existing_job_names),
     check  |-> JobsToCheckUpdate(all_expected_jobs, existing_job_names)]

Planned(r, built, sets) ==
    /\ expected' = [expected EXCEPT ![r] = built.all_expected_jobs]
    /\ results' = [results EXCEPT ![r].errors = built.errors,
                                  ![r].artists_processed = AsSet(built.artists_processed)]
    /\ plan' = [plan EXCEPT ![r] = sets]
    /\ todo' = [todo EXCEPT ![r] = sets]

BuiltAndDiffed(r, built) ==
    Planned(r, built,
            ThreeSets(built.all_expected_jobs, ExistingJobNames(existing_jobs[r])))

\* lines 519-691: Step 2 and the three name sets of Step 3.  down: the jobs
\* whose build meets a failing directory request.
BuildAndDiff(r) ==
    /\ pc[r] = "build"
    /\ \E down \in SUBSET BuildExpectedJobs(Config(cfg), primary[r], sg_state, {}).asked :
         /\ failures + Cardinality(down) <= MaxFailures
         /\ failures' = failures + Cardinality(down)
         /\ BuiltAndDiffed(r, BuildExpectedJobs(Config(cfg), primary[r], sg_state, down))
    /\ pc' = [pc EXCEPT ![r] = "apply"]
    /\ UNCHANGED <<cfg, sg_state, jobs_at_start, jobs, nextId, primary, existing_jobs, pending, calls>>

Failed(op, name, kind) == [op |-> op, name |-> name, kind |-> kind]

\* lines 693-718: Step 4, one iteration of the loop over jobs_to_delete
DeleteJob(r) ==
    /\ pc[r] = "apply"
    /\ \E job_name \in todo[r].delete, outcome \in Outcomes :
         LET existing_job == ExistingJobNames(existing_jobs[r])[job_name]
             job_id  == existing_job.id
             \* DELETE /jobs/{id} of a job that is gone is answered with an error
             answer  == IF Holding(job_id) = {} /\ outcome = "ok" THEN "ApiError"
                        ELSE outcome
             is_assets == Contains(job_name, AssetsSuffix)
         IN
         /\ MayFail(outcome)
         /\ failures' = Spent(outcome)
         /\ calls' = [calls EXCEPT ![r] = Append(@, Call("DELETE", job_id, job_name, answer))]
         /\ todo' = [todo EXCEPT ![r].delete = @ \ {job_name}]
         /\ IF answer = "ok"
            THEN /\ jobs' = Without(jobs, Holding(job_id))
                 /\ results' = [results EXCEPT
                       ![r].assets_jobs_deleted = IF is_assets THEN @ + 1 ELSE @,
                       ![r].shot_jobs_deleted   = IF is_assets THEN @ ELSE @ + 1,
                       ![r].details = Append(@,
                           [type |-> IF is_assets THEN "assets" ELSE "shot",
                            job_name |-> job_name, action |-> "deleted"])]
            ELSE /\ jobs' = jobs
                 /\ results' = [results EXCEPT
                       ![r].errors = Append(@, Failed("delete", job_name, answer))]
    /\ UNCHANGED <<cfg, sg_state, jobs_at_start, nextId, pc, primary, existing_jobs, expected, plan,
                   pending>>

\* lines 720-755: Step 5, one iteration of the loop over jobs_to_create
CreateJob(r) ==
    /\ pc[r] = "apply"
    /\ todo[r].delete = {}
    /\ \E job_name \in todo[r].create, outcome \in Outcomes :
         LET job_config == expected[r][job_name] IN
         /\ MayFail(outcome)
         /\ failures' = Spent(outcome)
         /\ calls' = [calls EXCEPT ![r] = Append(@, Call("POST", 0, job_config.name, outcome))]
         /\ todo' = [todo EXCEPT ![r].create = @ \ {job_name}]
         /\ IF outcome = "ok"
            THEN /\ jobs' = Append(jobs, RemoteJob(nextId, job_config.name,
                                                  job_config.agents))
                 /\ nextId' = nextId + 1
                 /\ results' = [results EXCEPT
                       ![r].assets_jobs_created =
                           IF job_config.type = "assets" THEN @ + 1 ELSE @,
                       ![r].shot_jobs_created =
                           IF job_config.type = "assets" THEN @ ELSE @ + 1,
                       ![r].details = Append(@,
                           [type |-> job_config.type, job_name |-> job_name,
                            action |-> "created"])]
            ELSE /\ UNCHANGED <<jobs, nextId>>
                 /\ results' = [results EXCEPT
                       ![r].errors = Append(@, Failed("create", job_name, outcome))]
    /\ UNCHANGED <<cfg, sg_state, jobs_at_start, pc, primary, existing_jobs, expected, plan, pending>>

\* the names of the third loop are reached once the first two are exhausted
\* mutant: the third loop does not wait for the first two
InUpdateLoop_Early(r) == pc[r] = "apply"

InUpdateLoop(r) ==
    /\ pc[r] = "apply"
    /\ todo[r].delete = {}
    /\ todo[r].create = {}

\* mutant: the body keeps the agents it was fetched with
UpdateBody_KeepAgents(job, expected_agents) ==
    [id |-> job.id, name |-> job.name, agents |-> job.agents]

\* lines 221-227 of update_job_agents: the fetched body without its read-only
\* properties and with the expected agents
UpdateBody(job, expected_agents) ==
    [id |-> job.id, name |-> job.name, agents |-> expected_agents]

\* lines 757-765, 784-785: an iteration of Step 6 whose comparison finds the
\* end-user ids equal
SkipUnchanged(r) ==
    /\ InUpdateLoop(r)
    /\ \E job_name \in todo[r].check :
         /\ compare_job_agents(ExistingJobNames(existing_jobs[r])[job_name],
                               expected[r][job_name].agents)
         /\ todo' = [todo EXCEPT ![r].check = @ \ {job_name}]
    /\ UNCHANGED <<cfg, sg_state, jobs_at_start, jobs, nextId, failures, pc, primary, existing_jobs,
                   expected, plan, pending, results, calls>>

\* lines 765-768 and 217-227: the comparison finds a difference and
\* update_job_agents fetches the job; a failed GET makes it return False, which
\* the loop neither counts nor records
UpdateGet(r) ==
    /\ InUpdateLoop(r)
    /\ \E job_name \in todo[r].check, outcome \in Outcomes :
         LET existing_job == ExistingJobNames(existing_jobs[r])[job_name]
             job_id == existing_job.id
             answer == IF Holding(job_id) = {} /\ outcome = "ok" THEN "ApiError"
                       ELSE outcome
         IN
         /\ ~compare_job_agents(existing_job, expected[r][job_name].agents)
         /\ MayFail(outcome)
         /\ failures' = Spent(outcome)
         /\ calls' = [calls EXCEPT ![r] = Append(@, Call("GET_job", job_id, job_name, answer))]
         /\ IF answer = "ok"
            THEN /\ pending' = [pending EXCEPT ![r] =
                        [job_name |-> job_name,
                         body |-> UpdateBody(jobs[CHOOSE i \in Holding(job_id) : TRUE],
                                             expected[r][job_name].agents)]]
                 /\ pc' = [pc EXCEPT ![r] = "put"]
                 /\ UNCHANGED todo
            ELSE /\ todo' = [todo EXCEPT ![r].check = @ \ {job_name}]
                 /\ UNCHANGED <<pending, pc>>
    /\ UNCHANGED <<cfg, sg_state, jobs_at_start, jobs, nextId, primary, existing_jobs, expected,
                   plan, results>>

\* lines 229-236 and 768-783: the PUT of update_job_agents and the counting of
\* its result; the orchestration system rejects a body that still carries
\* read-only properties, and a job that is gone
UpdatePut(r) ==
    /\ pc[r] = "put"
    /\ \E outcome \in Outcomes :
         LET job_name == pending[r].job_name
             body     == pending[r].body
             expected_config == expected[r][job_name]
             answer == IF outcome = "ok"
                          /\ (Holding(body.id) = {} \/ "created_at" \in DOMAIN body)
                       THEN "ApiError" ELSE outcome
         IN
         /\ MayFail(outcome)
         /\ failures' = Spent(outcome)
         /\ calls' = [calls EXCEPT ![r] = Append(@, Call("PUT", body.id, job_name, answer))]
         /\ todo' = [todo EXCEPT ![r].check = @ \ {job_name}]
         /\ IF answer = "ok"
            THEN /\ jobs' = [i \in 1..Len(jobs) |->
                               IF i \in Holding(body.id)
                               THEN RemoteJob(body.id, body.name, body.agents)
                               ELSE jobs[i]]
                 /\ results' = [results EXCEPT
                       ![r].assets_jobs_updated =
                           IF expected_config.type = "assets" THEN @ + 1 ELSE @,
                       ![r].shot_jobs_updated =
                           IF expected_config.type = "assets" THEN @ ELSE @ + 1,
                       ![r].details = Append(@,
                           [type |-> expected_config.type, job_name |-> job_name,
                            action |-> "updated"])]
            ELSE UNCHANGED <<jobs, results>>
    /\ pending' = [pending EXCEPT ![r] = None]
    /\ pc' = [pc EXCEPT ![r] = "apply"]
    /\ UNCHANGED <<cfg, sg_state, jobs_at_start, nextId, primary, existing_jobs, expected, plan>>

\* lines 792-799: the set of artists becomes a count and the results are returned
ReturnResults(r) ==
    /\ InUpdateLoop(r)
    /\ todo[r].check = {}
    /\ results' = [results EXCEPT ![r].artists_processed = AsInt(Cardinality(@.set))]
    /\ pc' = [pc EXCEPT ![r] = "done"]
    /\ UNCHANGED <<cfg, sg_state, jobs_at_start, jobs, nextId, failures, primary, existing_jobs,
                   expected, plan, todo, pending, calls>>

Step(r) ==
    \/ FetchInventory(r)
    \/ BuildAndDiff(r)
    \/ DeleteJob(r)
    \/ CreateJob(r)
    \/ SkipUnchanged(r)
    \/ UpdateGet(r)
    \/ UpdatePut(r)
    \/ ReturnResults(r)

\* one run of the reconciler from any initial inventory
Next ==
    /\ \E r \in Runs : (First(r) /\ StartRun(r)) \/ Step(r)
    /\ UNCHANGED <<directory, query, resolved>>

Spec == Init /\ [][Next]_vars

\* the installations whose primary storage agent is configured by name
InitRepeat == Init /\ cfg = "primary_by_name"

\* runs one after the other over the same snapshot and configuration
NextRepeat ==
    /\ \E r \in Runs : (Consecutive(r) /\ StartRun(r)) \/ Step(r)
    /\ UNCHANGED <<directory, query, resolved>>

SpecRepeat == InitRepeat /\ [][NextRepeat]_vars

----------------------------------------------------------------------------
(* The agent resolver on its own *)

\* the directories the resolver is tried with: empty, the one of the runs,
\* one with two agents whose names differ by case only, one with an agent
\* that has no name
DirectoryPool ==
    { <<>>,
      AgentDirectory,
      << [id |-> 7, name |-> <<"b","o","b">>], [id |-> 8, name |-> <<"B","O","B">>] >>,
      << [id |-> 9, name |-> None], [id |-> 1, name |-> <<"N","A","S">>] >> }

\* what the config supplies for the agent to resolve: agent_id (0: none) and
\* agent_name (None: none)
QueryPool ==
    [who        : {"primary", "artist"},
     agent_id   : {0, 42},
     agent_name : {None, <<"n","a","s">>, <<"B","o","b">>, <<"d","a","n">>}]

\* a config that supplies just that
ResolverConfig(q) ==
    [primary_storage |-> [agent_id |-> q.agent_id, agent_name |-> q.agent_name],
     target_agents   |-> [a \in {"X"} |->
                             [agent_id |-> q.agent_id, agent_name |-> q.agent_name]]]

InitResolve ==
    /\ cfg = "primary_by_id"
    /\ sg_state = [shots |-> <<>>, artist_projects |-> <<>>]
    /\ jobs = <<>>
    /\ nextId = 1
    /\ failures = 0
    /\ pc = [r \in Runs |-> "idle"]
    /\ jobs_at_start = [r \in Runs |-> <<>>]
    /\ primary = [r \in Runs |-> 0]
    /\ existing_jobs = [r \in Runs |-> <<>>]
    /\ expected = [r \in Runs |-> EmptyDict]
    /\ plan = [r \in Runs |-> NoSets]
    /\ todo = [r \in Runs |-> NoSets]
    /\ pending = [r \in Runs |-> None]
    /\ results = [r \in Runs |-> None]
    /\ calls = [r \in Runs |-> <<>>]
    /\ directory \in DirectoryPool
    /\ query \in QueryPool
    /\ resolved = None

\* one call of get_primary_storage_agent_id or get_target_agent_id; up: the
\* GET /agents request, if one is made, succeeds
Resolve ==
    /\ resolved = None
    /\ \E up \in BOOLEAN :
         resolved' =
            [up  |-> up,
             got |-> IF query.who = "primary"
                     THEN get_primary_storage_agent_id(ResolverConfig(query), up)
                     ELSE get_target_agent_id(ResolverConfig(query), "X", up)]
    /\ UNCHANGED <<cfg, sg_state, jobs, nextId, failures, pc, jobs_at_start, primary,
                   existing_jobs, expected, plan, todo, pending, results, calls,
                   directory, query>>

SpecResolve == InitResolve /\ [][Resolve]_vars

----------------------------------------------------------------------------
(* Vocabulary of the properties *)

\* the run has returned
Returned(r) == pc[r] = "done"

\* the run returned early, its primary storage agent unresolved
Aborted(r) == Returned(r) /\ primary[r] = 0

\* the run went through all its steps and returned
Completed(r) == Returned(r) /\ primary[r] # 0

\* the run is past Step 3
Diffed(r) == pc[r] \in {"apply", "put", "done"} /\ primary[r] # 0

SixCounters(res) ==
    res.shot_jobs_created + res.shot_jobs_updated + res.shot_jobs_deleted
    + res.assets_jobs_created + res.assets_jobs_updated + res.assets_jobs_deleted

\* the requests of a run among the given kinds
CallsOf(r, ops) == {i \in 1..Len(calls[r]) : calls[r][i].op \in ops}

Mutating == {"DELETE", "POST", "PUT"}

ExistingNames(r) == {existing_jobs[r][i].name : i \in 1..Len(existing_jobs[r])}

\* no run has been entered since this one
Latest(r) == \A q \in Runs : q > r => pc[q] = "idle"

----------------------------------------------------------------------------
(* C3: the three name sets of a run are existing minus expected (delete),   *)
(* expected minus existing (create) and their intersection (check); they    *)
(* are pairwise disjoint and together make up the union of the expected     *)
(* and the existing names.                                                  *)
C3_ThreeSets ==
    \A r \in Runs : Diffed(r) =>
        /\ plan[r].delete = ExistingNames(r) \ DOMAIN expected[r]
        /\ plan[r].create = (DOMAIN expected[r]) \ ExistingNames(r)
        /\ plan[r].check  = (DOMAIN expected[r]) \cap ExistingNames(r)
        /\ plan[r].delete \cap plan[r].create = {}
        /\ plan[r].delete \cap plan[r].check = {}
        /\ plan[r].create \cap plan[r].check = {}
        /\ plan[r].delete \cup plan[r].create \cup plan[r].check
             = (DOMAIN expected[r]) \cup ExistingNames(r)

\* a run whose three sets are all non-empty
C3_Witness ==
    \E r \in Runs : /\ Diffed(r)
                    /\ plan[r].delete # {}
                    /\ plan[r].create # {}
                    /\ plan[r].check # {}

----------------------------------------------------------------------------
(* C7: a run whose primary storage agent is not resolved returns at once,   *)
(* with one error and six zero counters, having issued no inventory fetch   *)
(* and no create, update or delete call and left the remote jobs as they    *)
(* were.                                                                    *)
C7_AbortOnPrimary ==
    \A r \in Runs : (pc[r] # "idle" /\ primary[r] = 0) =>
        /\ Returned(r)
        /\ Len(results[r].errors) = 1
        /\ results[r].details = <<>>
        /\ SixCounters(results[r]) = 0
        /\ calls[r] = <<>>
        /\ jobs = jobs_at_start[r]

\* an aborted run over an inventory that holds jobs
C7_Witness == \E r \in Runs : Aborted(r) /\ jobs_at_start[r] # <<>>

----------------------------------------------------------------------------
(* C8: no update is called, and nothing counted as updated, for a name of   *)
(* to_check whose existing job has the expected set of end-user agent ids,  *)
(* whatever the paths and the primary storage entry.                        *)
SameEndUsers(r, n) ==
    EndUserIds(ExistingJobNames(existing_jobs[r])[n].agents)
        = EndUserIds(expected[r][n].agents)

C8_NoUpdateWhenSameIds ==
    \A r \in Runs : Diffed(r) =>
        \A n \in plan[r].check : SameEndUsers(r, n) =>
            /\ \A i \in CallsOf(r, {"GET_job", "PUT"}) : calls[r][i].name # n
            /\ \A k \in 1..Len(results[r].details) :
                   results[r].details[k].job_name # n
            /\ results[r].shot_jobs_updated + results[r].assets_jobs_updated
                 <= Cardinality({m \in plan[r].check : ~SameEndUsers(r, m)})

\* a completed run that left alone a job whose paths and primary storage
\* entry differ from the expected ones
C8_Witness ==
    \E r \in Runs : /\ Completed(r)
                    /\ \E n \in plan[r].check :
                         /\ SameEndUsers(r, n)
                         /\ ExistingJobNames(existing_jobs[r])[n].agents
                              # expected[r][n].agents
                         /\ \E i \in 1..Len(jobs) :
                              /\ jobs[i].name = n
                              /\ jobs[i].agents # expected[r][n].agents

----------------------------------------------------------------------------
(* C10: an expected shot job is named HybridWork_{tank_name}_{code} after   *)
(* a shot of the snapshot, an expected assets job                           *)
(* HybridWork_{tank_name}_Assets after a project of the snapshot, and each  *)
(* is stored under its name.                                                *)
C10_Naming ==
    \A r \in Runs : \A n \in DOMAIN expected[r] :
        LET job == expected[r][n] IN
        /\ job.name = n
        /\ job.type \in {"shot", "assets"}
        /\ job.type = "shot" =>
             /\ n = <<"H","y","b","r","i","d","W","o","r","k","_">>
                      \o job.project \o <<"_">> \o job.shot
             /\ \E i \in 1..Len(sg_state.shots) :
                  /\ sg_state.shots[i].project.tank_name = job.project
                  /\ sg_state.shots[i].code = job.shot
        /\ job.type = "assets" =>
             /\ n = <<"H","y","b","r","i","d","W","o","r","k","_">>
                      \o job.project \o <<"_","A","s","s","e","t","s">>
             /\ \E i \in 1..Len(sg_state.artist_projects) :
                  job.project \in Range(sg_state.artist_projects[i].projects)

\* a run that expects a shot job and an assets job
C10_Witness ==
    \E r \in Runs : \E n, m \in DOMAIN expected[r] :
        expected[r][n].type = "shot" /\ expected[r][m].type = "assets"

----------------------------------------------------------------------------
(* C9: a name of to_check whose existing end-user ids differ from the       *)
(* expected ones.                                                           *)

\* the requests of a run of one kind about one job name
CallsAbout(r, op, n) == {i \in CallsOf(r, {op}) : calls[r][i].name = n}

\* the names of to_check the comparison finds different
Differing(r) == {n \in plan[r].check : ~SameEndUsers(r, n)}

\* the job the orchestration system holds under this id has this name and
\* these agents
RemoteHolds(id, n, agents) ==
    /\ Cardinality(Holding(id)) = 1
    /\ \A i \in Holding(id) : jobs[i].name = n /\ jobs[i].agents = agents

PrimaryFirst(agents) ==
    /\ agents # <<>>
    /\ agents[1].role = "primary_storage"
    /\ \A k \in 2..Len(agents) : agents[k].role = "enduser"

\* C9 as stated: a returned run has issued exactly one PUT /jobs/{id} for
\* every differing name of to_check, and a job updated with success holds
\* the expected agents under its id and name.
C9_ExactlyOnePut ==
    \A r \in Runs : Completed(r) =>
        \A n \in Differing(r) :
            /\ Cardinality(CallsAbout(r, "PUT", n)) = 1
            /\ \A i \in CallsAbout(r, "PUT", n) :
                 calls[r][i].id = ExistingJobNames(existing_jobs[r])[n].id

\* C9, amended: a returned run has called update_job_agents once for every
\* differing name of to_check, that is one GET /jobs/{id} and, when and only
\* when that GET succeeds, one PUT /jobs/{id}, both for the id of the
\* existing job; after a successful PUT, and until another run is entered,
\* the remote job of that id has the same name and exactly the expected
\* agents, primary storage first.
C9_UpdateOnce ==
    \A r \in Runs :
        /\ Completed(r) =>
             \A n \in Differing(r) :
                /\ Cardinality(CallsAbout(r, "GET_job", n)) = 1
                /\ Cardinality(CallsAbout(r, "PUT", n)) <= 1
                /\ \A i \in CallsAbout(r, "GET_job", n) :
                     /\ calls[r][i].id = ExistingJobNames(existing_jobs[r])[n].id
                     /\ (calls[r][i].outcome = "ok") <=> (CallsAbout(r, "PUT", n) # {})
                /\ \A i \in CallsAbout(r, "PUT", n) :
                     calls[r][i].id = ExistingJobNames(existing_jobs[r])[n].id
        /\ (Diffed(r) /\ Latest(r)) =>
             \A i \in CallsOf(r, {"PUT"}) :
                /\ calls[r][i].name \in Differing(r)
                /\ calls[r][i].outcome = "ok" =>
                     /\ RemoteHolds(calls[r][i].id, calls[r][i].name,
                                    expected[r][calls[r][i].name].agents)
                     /\ PrimaryFirst(expected[r][calls[r][i].name].agents)
                     /\ \E k \in 1..Len(jobs_at_start[r]) :
                          /\ jobs_at_start[r][k].id = calls[r][i].id
                          /\ jobs_at_start[r][k].name = calls[r][i].name

\* a returned run that updated a job with success and whose new agents are
\* not the ones the job had
C9_Witness ==
    \E r \in Runs :
        /\ Completed(r)
        /\ \E i \in CallsOf(r, {"PUT"}) :
             /\ calls[r][i].outcome = "ok"
             /\ RemoteHolds(calls[r][i].id, calls[r][i].name,
                            expected[r][calls[r][i].name].agents)
             /\ Len(expected[r][calls[r][i].name].agents) > 1

----------------------------------------------------------------------------
(* C2: convergence of one run                                               *)

\* every /jobs request of the run was answered with success
AllCallsOk(r) == \A i \in 1..Len(calls[r]) : calls[r][i].outcome = "ok"

\* the jobs of the orchestration system that carry the prefix
ManagedJobs == {i \in 1..Len(jobs) : StartsWith(jobs[i].name, HybridPrefix)}

\* C2: when a run has just returned and its inventory fetch and all its create,
\* update and delete requests succeeded, the names of the prefixed remote
\* jobs are exactly the names of the run's all_expected_jobs, and each such
\* remote job has the end-user agent ids of the expected job of its name.
C2_Converged ==
    \A r \in Runs : (Completed(r) /\ Latest(r) /\ AllCallsOk(r)) =>
        /\ {jobs[i].name : i \in ManagedJobs} = DOMAIN expected[r]
        /\ \A i \in ManagedJobs :
             EndUserIds(jobs[i].agents) = EndUserIds(expected[r][jobs[i].name].agents)

----------------------------------------------------------------------------
(* C5: failure isolation of the three loops                                 *)

\* the failed delete, create and update requests of a run
FailedCalls(r) == {i \in CallsOf(r, Mutating) : calls[r][i].outcome # "ok"}

\* the entries of results['errors'] the three loops appended
LoopErrors(r) ==
    {k \in 1..Len(results[r].errors) :
        results[r].errors[k].op \in {"delete", "create", "update"}}

\* the names a run has counted
Counted(r) == {results[r].details[k].job_name : k \in 1..Len(results[r].details)}

\* the names a loop of the run has visited
Visited(r) ==
    {calls[r][i].name : i \in CallsOf(r, {"DELETE", "POST", "GET_job"})}
        \cup {n \in plan[r].check : SameEndUsers(r, n)}

\* C5: each failed delete, create or update request of a run has appended
\* one entry to results['errors'], its job name is not counted, and a run
\* that returned has visited every name of its three sets.
C5_FailuresRecorded ==
    \A r \in Runs : Diffed(r) =>
        /\ Cardinality(FailedCalls(r)) = Cardinality(LoopErrors(r))
        /\ \A i \in FailedCalls(r) : calls[r][i].name \notin Counted(r)
        /\ Completed(r) =>
             plan[r].delete \cup plan[r].create \cup plan[r].check \subseteq Visited(r)

----------------------------------------------------------------------------
(* C4: a shot none of whose assigned artists is configured                  *)

\* the entries of the snapshot's shot list without a configured artist
Unstaffed ==
    {i \in 1..Len(sg_state.shots) :
        ValidArtists(Config(cfg), sg_state.shots[i].assigned_artists) = <<>>}

\* the entries of the shot list an expected job of this entry's name could
\* come from: those of the same project and code with a configured artist
Namesakes(i) ==
    {j \in 1..Len(sg_state.shots) :
        /\ sg_state.shots[j].project.tank_name = sg_state.shots[i].project.tank_name
        /\ sg_state.shots[j].code = sg_state.shots[i].code
        /\ j \notin Unstaffed}

NameOfShot(i) == ShotJobName(sg_state.shots[i].project.tank_name, sg_state.shots[i].code)

----------------------------------------------------------------------------
(* C6: agent resolution fails for one shot among N independent shots        *)

\* the shots of the snapshot are independent: no two entries have the same
\* key and each has a configured artist
IndependentShots ==
    /\ Unstaffed = {}
    /\ \A i, j \in 1..Len(sg_state.shots) :
         ShotKey(sg_state.shots[i].project.tank_name, sg_state.shots[i].code)
           = ShotKey(sg_state.shots[j].project.tank_name, sg_state.shots[j].code)
         => i = j

\* the shots whose job the run could not build
Unresolved(r) == {i \in 1..Len(sg_state.shots) : NameOfShot(i) \notin DOMAIN expected[r]}

\* a run that returned, all of whose /jobs requests succeeded, and that
\* failed to resolve the agents of exactly one of its independent shots
OneShotUnresolved(r) ==
    /\ Completed(r)
    /\ AllCallsOk(r)
    /\ IndependentShots
    /\ Cardinality(Unresolved(r)) = 1

\* C6 as stated: such a run reports N-1 successful operations, six counters
\* that sum to N-1 and one error.
C6_AllButOne ==
    \A r \in Runs : OneShotUnresolved(r) =>
        /\ Len(results[r].details) = Len(sg_state.shots) - 1
        /\ SixCounters(results[r]) = Len(sg_state.shots) - 1
        /\ Len(results[r].errors) = 1

\* C6, amended: when moreover the snapshot lists no artist's projects (no
\* assets job is expected) and the orchestration system held no prefixed
\* job when the run was entered, the run has created the N-1 other shot
\* jobs: N-1 detail entries, all of them creations of shot jobs, six
\* counters that sum to N-1, and one error, that of the unresolved shot.
C6_AllButOneCreated ==
    \A r \in Runs :
        (/\ OneShotUnresolved(r)
         /\ sg_state.artist_projects = <<>>
         /\ \A k \in 1..Len(jobs_at_start[r]) :
              ~StartsWith(jobs_at_start[r][k].name, HybridPrefix))
        =>
        /\ Len(results[r].details) = Len(sg_state.shots) - 1
        /\ results[r].shot_jobs_created = Len(sg_state.shots) - 1
        /\ SixCounters(results[r]) = Len(sg_state.shots) - 1
        /\ Len(results[r].errors) = 1
        /\ \A i \in Unresolved(r) :
             results[r].errors[1] = BuildError("build_shot", sg_state.shots[i].code)

\* such a run over two shots, next to an unmanaged job: one shot job
\* created, one error
C6_Witness ==
    \E r \in Runs :
        /\ OneShotUnresolved(r)
        /\ sg_state.artist_projects = <<>>
        /\ Len(sg_state.shots) = 2
        /\ jobs_at_start[r] # <<>>
        /\ \A k \in 1..Len(jobs_at_start[r]) :
             ~StartsWith(jobs_at_start[r][k].name, HybridPrefix)
        /\ results[r].shot_jobs_created = 1

----------------------------------------------------------------------------
(* C1: two consecutive runs over the same snapshot and configuration        *)

\* run r + 1 was entered after run r returned
Follows(r) == r + 1 \in Runs /\ Returned(r) /\ pc[r + 1] # "idle"

\* the run has issued no delete, create or update request and counted nothing
Idle(r) ==
    /\ CallsOf(r, {"DELETE", "POST", "GET_job", "PUT"}) = {}
    /\ SixCounters(results[r]) = 0
    /\ results[r].details = <<>>

\* no two prefixed jobs of the list have the same name
UniqueNames(list) ==
    \A i, k \in 1..Len(list) :
        (StartsWith(list[i].name, HybridPrefix) /\ list[i].name = list[k].name) => i = k

----------------------------------------------------------------------------
(* C11: the assets job of a project                                         *)

\* the snapshot is one get_active_shots_with_assignments returns: its
\* artist_projects lists every assigned artist with the projects of its shots
DerivedSnapshot == sg_state.artist_projects = ArtistProjectsOf(sg_state.shots, 1, <<>>)

ProjectsOfShots == {sg_state.shots[i].project.tank_name : i \in 1..Len(sg_state.shots)}

\* the shots of a project an artist is assigned to
ShotsOf(a, project_tank) ==
    {i \in 1..Len(sg_state.shots) :
        /\ sg_state.shots[i].project.tank_name = project_tank
        /\ a \in Range(sg_state.shots[i].assigned_artists)}

\* the configured artists assigned to a shot of the project
KnownArtists(project_tank) ==
    {a \in DOMAIN Config(cfg).target_agents : ShotsOf(a, project_tank) # {}}

\* the run expects an assets job for the project
ExpectsAssets(r, project_tank) ==
    /\ AssetsJobName(project_tank) \in DOMAIN expected[r]
    /\ expected[r][AssetsJobName(project_tank)].type = "assets"

\* the end-user entries of a list of agents
EndUsers(agents) == SelectSeq(agents, LAMBDA e : e.role = "enduser")

\* the expected assets job has one end-user entry for each of these artists,
\* and no other
OnePerArtist(job, artists) ==
    /\ Range(job.artists) = artists
    /\ Len(job.artists) = Cardinality(artists)
    /\ Len(EndUsers(job.agents)) = Cardinality(artists)

\* the build of the project's assets job failed in the run
AssetsBuildFailed(r, project_tank) ==
    \E k \in 1..Len(results[r].errors) :
        results[r].errors[k] = BuildError("build_assets", project_tank)

\* C11 as stated: an assets job is expected for a project exactly when a
\* configured artist is assigned to one of its shots, and it has one
\* end-user entry per such artist.
C11_AssetsPerProject ==
    \A r \in Runs : (Diffed(r) /\ DerivedSnapshot) =>
        \A p \in ProjectsOfShots :
            /\ ExpectsAssets(r, p) <=> KnownArtists(p) # {}
            /\ ExpectsAssets(r, p) =>
                 OnePerArtist(expected[r][AssetsJobName(p)], KnownArtists(p))

\* C11, amended: an assets job is expected for a project exactly when a
\* configured artist is assigned to one of its shots and the agent of every
\* such artist was resolved; otherwise, if there is such an artist, the run
\* has recorded the failed build.  An expected assets job has one end-user
\* entry per such artist, also for an artist with several shots.
C11_AssetsPerResolvedProject ==
    \A r \in Runs : (Diffed(r) /\ DerivedSnapshot) =>
        \A p \in ProjectsOfShots :
            /\ ExpectsAssets(r, p) <=>
                 (KnownArtists(p) # {} /\ ~AssetsBuildFailed(r, p))
            /\ AssetsBuildFailed(r, p) => KnownArtists(p) # {}
            /\ ExpectsAssets(r, p) =>
                 OnePerArtist(expected[r][AssetsJobName(p)], KnownArtists(p))

\* a run that expects the assets job of a project in which a configured
\* artist is assigned to two different shots
C11_Witness ==
    \E r \in Runs : \E p \in ProjectsOfShots :
        /\ Diffed(r)
        /\ DerivedSnapshot
        /\ ExpectsAssets(r, p)
        /\ \E a \in KnownArtists(p) : \E i, j \in ShotsOf(a, p) :
             sg_state.shots[i].code # sg_state.shots[j].code

----------------------------------------------------------------------------
(* C12: the end-to-end scenario.  One shot S1 of project P assigned to A    *)
(* (configured, agent 42) and to an artist without configuration (C here),  *)
(* artist_projects {A: [P]}, primary storage agent 1, no job named          *)
(* HybridWork_P_S1 in the orchestration system.                             *)

ScenarioSnapshot ==
    [shots |-> <<Shot(<<"P">>, <<"S","1">>, <<"A", "C">>)>>,
     artist_projects |-> <<[artist |-> "A", projects |-> <<<<"P">>>>]>>]

ScenarioName == <<"H","y","b","r","i","d","W","o","r","k","_","P","_","S","1">>

\* a run of the scenario that returned, every request answered with success
ScenarioRun(r) ==
    /\ Completed(r)
    /\ AllCallsOk(r)
    /\ sg_state = ScenarioSnapshot
    /\ \A k \in 1..Len(jobs_at_start[r]) : jobs_at_start[r][k].name # ScenarioName

\* the agents are [primary_storage id 1, enduser id 42]
ScenarioAgents(agents) ==
    /\ Len(agents) = 2
    /\ agents[1].id = 1 /\ agents[1].role = "primary_storage"
    /\ agents[2].id = 42 /\ agents[2].role = "enduser"

\* C12: the run of the scenario issues one create call for HybridWork_P_S1,
\* with agents [primary_storage 1, enduser 42], and returns
\* shot_jobs_created = 1, artists_processed = 1 and no error.
C12_Scenario ==
    \A r \in Runs : ScenarioRun(r) =>
        /\ Cardinality(CallsAbout(r, "POST", ScenarioName)) = 1
        /\ ScenarioAgents(expected[r][ScenarioName].agents)
        /\ Latest(r) =>
             \E k \in 1..Len(jobs) :
                /\ jobs[k].name = ScenarioName
                /\ jobs[k].agents = expected[r][ScenarioName].agents
                /\ \A m \in 1..Len(jobs) : jobs[m].name = ScenarioName => m = k
        /\ results[r].shot_jobs_created = 1
        /\ results[r].artists_processed = AsInt(1)
        /\ results[r].errors = <<>>

\* the scenario over an orchestration system that holds other jobs
C12_Witness ==
    \E r \in Runs : ScenarioRun(r) /\ jobs_at_start[r] # <<>>

----------------------------------------------------------------------------
(* C13: the agents of an expected job                                       *)

\* the artists an expected job is built for: the configured artists of a
\* snapshot entry of its project and code (shot job), the configured artists
\* artist_projects lists for its project (assets job)
ArtistsOfJob(job) ==
    IF job.type = "shot"
    THEN {ValidArtists(Config(cfg), sg_state.shots[i].assigned_artists) :
            i \in {k \in 1..Len(sg_state.shots) :
                     /\ sg_state.shots[k].project.tank_name = job.project
                     /\ sg_state.shots[k].code = job.shot}}
    ELSE {ProjectArtists(Config(cfg), sg_state.artist_projects, job.project)}

\* C13: every expected job of a run has exactly one primary_storage entry,
\* with the id the run resolved when it was entered, and after it one
\* enduser entry for each distinct valid artist of its shot or project, with
\* that artist's agent id.
C13_AgentsOfJob ==
    \A r \in Runs : \A n \in DOMAIN expected[r] :
        LET job == expected[r][n] IN
        /\ Cardinality({k \in 1..Len(job.agents) :
                           job.agents[k].role = "primary_storage"}) = 1
        /\ \A k \in 1..Len(job.agents) :
             job.agents[k].role = "primary_storage" => job.agents[k].id = primary[r]
        /\ job.artists \in ArtistsOfJob(job)
        /\ job.artists # <<>>
        /\ Cardinality(Range(job.artists)) = Len(job.artists)
        /\ Len(EndUsers(job.agents)) = Len(job.artists)
        /\ Len(job.agents) = Len(job.artists) + 1
        /\ \A k \in 1..Len(job.artists) :
             EndUsers(job.agents)[k].id
               = get_target_agent_id(Config(cfg), job.artists[k], TRUE).id

\* a run that expects a shot job and an assets job, one of them for an
\* artist whose agent was looked up by name
C13_Witness ==
    \E r \in Runs : \E n, m \in DOMAIN expected[r] :
        /\ expected[r][n].type = "shot"
        /\ expected[r][m].type = "assets"
        /\ "B" \in Range(expected[r][n].artists) \cup Range(expected[r][m].artists)
        /\ "A" \in Range(expected[r][n].artists) \cup Range(expected[r][m].artists)

----------------------------------------------------------------------------
(* C15, C16: agent resolution                                               *)

\* the agents of the directory whose name is the configured one, ignoring case
Matching == {k \in 1..Len(directory) : Lower(directory[k].name) = Lower(query.agent_name)}

\* C15: with a configured agent_id the resolver returns it and makes no
\* directory request; without one it returns, when the directory lists an
\* agent whose name is the configured agent_name ignoring case and answers,
\* the id of such an agent, and it never returns any other id.
C15_Resolved ==
    resolved # None =>
        /\ query.agent_id # 0 =>
             resolved.got = [ok |-> TRUE, id |-> query.agent_id, asked |-> FALSE]
        /\ query.agent_id = 0 =>
             /\ resolved.got.asked
             /\ resolved.got.ok => \E k \in Matching : directory[k].id = resolved.got.id
             /\ (resolved.up /\ Matching # {}) => resolved.got.ok

\* an agent found under a name written in another case than the configured one
C15_Witness ==
    /\ resolved # None
    /\ query.agent_id = 0
    /\ resolved.got.ok
    /\ \E k \in Matching :
         /\ directory[k].id = resolved.got.id
         /\ directory[k].name # query.agent_name

\* C16: without a configured agent_id, and with no agent of the directory
\* under a configured agent_name (none is configured, or no agent has it),
\* the resolver fails and returns no id.
C16_FailsWithoutMatch ==
    (/\ resolved # None
     /\ query.agent_id = 0
     /\ (query.agent_name = None \/ Matching = {}))
    => (~resolved.got.ok /\ resolved.got.id = 0)

----------------------------------------------------------------------------
(* C17: a job one of whose artists has no usable agent mapping              *)

\* the snapshot entries whose shot job the run tried to build and could not:
\* the first entry of their project and code, with a configured artist, and
\* no expected job of their name
FailedShots(r) ==
    {i \in 1..Len(sg_state.shots) :
        /\ i \notin Unstaffed
        /\ \A j \in 1..(i - 1) :
             ShotKey(sg_state.shots[j].project.tank_name, sg_state.shots[j].code)
               # ShotKey(sg_state.shots[i].project.tank_name, sg_state.shots[i].code)
        /\ NameOfShot(i) \notin DOMAIN expected[r]}

\* the names of the jobs the run skipped for want of an agent
SkippedNames(r) ==
    {NameOfShot(i) : i \in FailedShots(r)}
      \cup {AssetsJobName(p) : p \in {q \in ProjectsOfShots : AssetsBuildFailed(r, q)}}

\* C17: a run that resolved primary storage and could not resolve an artist
\* of a job has recorded the failure and issues no create, update or delete
\* request for the name of that job.
C17_SkippedJobUntouched ==
    \A r \in Runs : Diffed(r) =>
        /\ \A i \in FailedShots(r) : \E k \in 1..Len(results[r].errors) :
             results[r].errors[k] = BuildError("build_shot", sg_state.shots[i].code)
        /\ \A n \in SkippedNames(r) :
             n \notin DOMAIN expected[r] =>
                \A i \in CallsOf(r, {"DELETE", "POST", "GET_job", "PUT"}) :
                    calls[r][i].name # n

----------------------------------------------------------------------------
(* C18: a run whose primary storage agent resolves returns *)

\* what every step of a run changes: its position, or the names and the
\* update it still has to process
position == <<pc, todo, pending>>

\* a request or a return statement of run r
Progress(r) ==
    /\ \/ FetchInventory(r)
       \/ DeleteJob(r)
       \/ CreateJob(r)
       \/ SkipUnchanged(r)
       \/ UpdateGet(r)
       \/ UpdatePut(r)
       \/ ReturnResults(r)
    /\ UNCHANGED <<directory, query, resolved>>

\* the step from Step 2 to the loops: BuildAndDiff(r) is the only step of Next
\* that takes run r there, and it is enabled whenever the run is at Step 2
LeavesBuild(r) == pc[r] = "build" /\ pc' = [pc EXCEPT ![r] = "apply"]

\* The run is one sequential call of sync_resilio_to_shotgrid_state: every
\* request it sends is answered or fails, and the statement after it is then
\* executed.
SpecFair ==
    /\ Init
    /\ [][Next]_vars
    /\ \A r \in Runs : WF_position(Progress(r)) /\ WF_pc(LeavesBuild(r))

\* the run has resolved its primary storage agent
Started(r) == pc[r] # "idle" /\ primary[r] # 0

\* every name of the inventory the run fetched and of its expected jobs
NamesToProcess(r) == ExistingNames(r) \cup DOMAIN expected[r]

----------------------------------------------------------------------------
(* C19: two runs at the same time *)

\* Nothing keeps a second call of sync_resilio_to_shotgrid_state from being
\* entered while the first is between two requests: the runs interleave
\* request by request.
NextConc ==
    /\ \E r \in Runs : StartRun(r) \/ Step(r)
    /\ UNCHANGED <<directory, query, resolved>>

\* the installations that configure primary storage by id, with a snapshot
\* of at most MaxConcShots shots
InitConc == Init /\ cfg = "primary_by_id" /\ Len(sg_state.shots) <= MaxConcShots

SpecConc == InitConc /\ [][NextConc]_vars

\* the requests of run r for job name n that were answered without error
OkCalls(r, op, n) == {i \in CallsAbout(r, op, n) : calls[r][i].outcome = "ok"}

\* the remote jobs of this name
Named(n) == {i \in 1..Len(jobs) : jobs[i].name = n}

\* C19: nothing keeps two runs at the same time apart.  A name both runs
\* expect and neither found in its inventory is in to_create of both, and
\* once both create requests have succeeded (and no delete request for the
\* name has) two remote jobs carry it; a name both found with other end-user
\* ids than expected is in to_check of both, and both runs that returned
\* have begun an update of it.
C19_NoMutualExclusion ==
    \A r, q \in Runs : (r # q /\ Diffed(r) /\ Diffed(q)) =>
        \A n \in (DOMAIN expected[r]) \cap (DOMAIN expected[q]) :
            /\ (n \notin ExistingNames(r) /\ n \notin ExistingNames(q)) =>
                  /\ n \in plan[r].create \cap plan[q].create
                  /\ ( /\ OkCalls(r, "POST", n) # {}
                       /\ OkCalls(q, "POST", n) # {}
                       /\ \A p \in Runs : OkCalls(p, "DELETE", n) = {} )
                       => Cardinality(Named(n)) >= 2
            /\ (n \in ExistingNames(r) \cap ExistingNames(q)
                  /\ ~SameEndUsers(r, n) /\ ~SameEndUsers(q, n)) =>
                  /\ n \in plan[r].check \cap plan[q].check
                  /\ (Completed(r) /\ Completed(q)) =>
                        /\ CallsAbout(r, "GET_job", n) # {}
                        /\ CallsAbout(q, "GET_job", n) # {}

\* both runs have created a job of the same name, so that two remote jobs
\* carry it, and both have sent an update of the same job
C19_Witness ==
    \E r, q \in Runs :
        /\ r # q
        /\ \E n \in DOMAIN expected[r] :
              /\ n \notin ExistingNames(r) /\ n \notin ExistingNames(q)
              /\ OkCalls(r, "POST", n) # {}
              /\ OkCalls(q, "POST", n) # {}
              /\ Cardinality(Named(n)) = 2
        /\ \E i \in CallsOf(r, {"PUT"}), j \in CallsOf(q, {"PUT"}) :
              /\ calls[r][i].id = calls[q][j].id
              /\ calls[r][i].outcome = "ok"
              /\ calls[q][j].outcome = "ok"

----------------------------------------------------------------------------
(* C20: the inventory of a run *)

\* the run has resolved primary storage and passed Step 1
Fetched(r) == primary[r] # 0 /\ pc[r] \notin {"idle", "fetch"}

\* the run's first request is its only GET /jobs
FetchedOnceFirst(r) ==
    /\ CallsOf(r, {"GET_jobs"}) = {1}
    /\ \A i \in CallsOf(r, Mutating \cup {"GET_job"}) : i > 1

\* the inventory of the run is what the orchestration system held when the
\* run was entered: its prefixed jobs, or nothing when the request failed
FreshInventory(r) ==
    {existing_jobs[r][i] : i \in 1..Len(existing_jobs[r])}
      = IF calls[r][1].outcome = "ok"
        THEN {jobs_at_start[r][j] :
                j \in {k \in 1..Len(jobs_at_start[r]) :
                         StartsWith(jobs_at_start[r][k].name, HybridPrefix)}}
        ELSE {}

\* C20 as stated: a run that does not abort issues exactly one GET /jobs,
\* before any create, update or delete request, that request is its only
\* read of remote job state, and its inventory is the one it fetched itself.
C20_OnlyRead ==
    \A r \in Runs : Fetched(r) =>
        /\ FetchedOnceFirst(r)
        /\ CallsOf(r, {"GET_jobs", "GET_job"}) = {1}
        /\ FreshInventory(r)

\* C20, amended: a run that does not abort issues exactly one GET /jobs,
\* before any create, update or delete request, its inventory is the one it
\* fetched itself, and its only other reads of remote job state are the
\* GET /jobs/{id} of its updates, at most one for each differing name of
\* to_check.
C20_OneInventoryFetch ==
    \A r \in Runs : Fetched(r) =>
        /\ FetchedOnceFirst(r)
        /\ FreshInventory(r)
        /\ \A i \in CallsOf(r, {"GET_job"}) :
             /\ Diffed(r)
             /\ calls[r][i].name \in Differing(r)
             /\ CallsAbout(r, "GET_job", calls[r][i].name) = {i}

\* a run that follows a run which changed the remote jobs, has fetched
\* another inventory than that run, and has read a job for an update
C20_Witness ==
    \E r \in Runs :
        /\ Follows(r)
        /\ Fetched(r + 1)
        /\ calls[r + 1][1].outcome = "ok"
        /\ existing_jobs[r + 1] # existing_jobs[r]
        /\ existing_jobs[r + 1] # <<>>
        /\ CallsOf(r + 1, {"GET_job"}) # {}

----------------------------------------------------------------------------
(* Functions called on their own *)

\* the variables of the runs
system == <<cfg, sg_state, jobs, nextId, failures, pc, jobs_at_start, primary, existing_jobs, expected, plan, todo, pending, results, calls>>

\* no run has been entered and the orchestration system holds no job
IdleSystem ==
    /\ cfg = "primary_by_id"
    /\ sg_state = [shots |-> <<>>, artist_projects |-> <<>>]
    /\ jobs = <<>>
    /\ nextId = 1
    /\ failures = 0
    /\ pc = [r \in Runs |-> "idle"]
    /\ jobs_at_start = [r \in Runs |-> <<>>]
    /\ primary = [r \in Runs |-> 0]
    /\ existing_jobs = [r \in Runs |-> <<>>]
    /\ expected = [r \in Runs |-> EmptyDict]
    /\ plan = [r \in Runs |-> NoSets]
    /\ todo = [r \in Runs |-> NoSets]
    /\ pending = [r \in Runs |-> None]
    /\ results = [r \in Runs |-> None]
    /\ calls = [r \in Runs |-> <<>>]
    /\ directory = AgentDirectory

----------------------------------------------------------------------------
(* C21: hydrate_files *)

\* if len(files) > 1000   (line 141)
MaxHydrateFiles == 1000

\* mutant: a list of exactly the maximum is refused too
hydrate_files_OffByOne(files, agents, outcome) ==
    IF Len(files) >= MaxHydrateFiles
    THEN [raised |-> <<"ApiError">>, requests |-> <<>>]
    ELSE [raised   |-> IF outcome = "ok" THEN <<>> ELSE <<"ApiError">>,
          requests |-> <<[op |-> "PUT_hydrate", json |-> [files |-> files]] >>]

\* api.hydrate_files(run_id, files, agents): what it raises and the requests
\* it sends.  agents.given is FALSE when the argument is left out (None);
\* outcome: how the PUT ends.
hydrate_files(files, agents, outcome) ==
    IF Len(files) > MaxHydrateFiles
    THEN [raised |-> <<"ApiError">>, requests |-> <<>>]
    ELSE [raised   |-> IF outcome = "ok" THEN <<>> ELSE <<"ApiError">>,
          requests |-> <<[op   |-> "PUT_hydrate",
                          json |-> IF agents.given /\ agents.list # <<>>
                                   THEN [files |-> files, agents |-> agents.list]
                                   ELSE [files |-> files]] >>]

\* the lengths of the lists of paths tried: around the maximum and short ones
HydrateLengths == (0..2) \cup ((MaxHydrateFiles - 2)..(MaxHydrateFiles + 2))

\* the arguments of a call: n distinct paths, and no agents, an empty list of
\* agents or some agents
HydratePool ==
    [who    : {"hydrate"},
     files  : {[i \in 1..n |-> i] : n \in HydrateLengths},
     agents : {[given |-> FALSE, list |-> <<>>]}
                \cup [given : {TRUE}, list : {<<>>, <<42>>, <<42, 7>>}]]

InitHydrate == IdleSystem /\ query \in HydratePool /\ resolved = None

\* one call of hydrate_files
Hydrate ==
    /\ resolved = None
    /\ \E outcome \in Outcomes :
         resolved' = [outcome |-> outcome,
                      got |-> hydrate_files(query.files, query.agents, outcome)]
    /\ UNCHANGED <<system, directory, query>>

SpecHydrate == InitHydrate /\ [][Hydrate]_vars

\* C21: a call with more than 1000 paths raises and sends no request; a call
\* with 1000 paths or fewer sends exactly one hydrate request, which carries
\* every path given in the order given, and carries agents only when agents
\* were given, then those given.
C21_HydrateLimit ==
    resolved # None =>
        /\ Len(query.files) > 1000 =>
             /\ resolved.got.raised # <<>>
             /\ resolved.got.requests = <<>>
        /\ Len(query.files) <= 1000 =>
             /\ Len(resolved.got.requests) = 1
             /\ resolved.got.requests[1].json.files = query.files
             /\ "agents" \in DOMAIN resolved.got.requests[1].json =>
                  /\ query.agents.given
                  /\ resolved.got.requests[1].json.agents = query.agents.list
             /\ query.agents.list # <<>> =>
                  "agents" \in DOMAIN resolved.got.requests[1].json

\* a call with exactly 1000 paths and two agents has sent its request
C21_Witness ==
    /\ resolved # None
    /\ Len(query.files) = 1000
    /\ query.agents.list = <<42, 7>>
    /\ Len(resolved.got.requests) = 1
    /\ resolved.got.raised = <<>>

----------------------------------------------------------------------------
(* C22: authorized_api_request *)

\* The bodies of a response: text is response.text; json tells what
\* response.json() gives: "none" (it raises JSONDecodeError), "object" or
\* "array"; an object has a message field or not.
ResponseBodies ==
    [json : {"none", "array"}, has_message : {FALSE}, message : {""}, text : {"raw", ""}]
      \cup [json : {"object"}, has_message : {FALSE}, message : {""}, text : {"raw"}]
      \cup [json : {"object"}, has_message : {TRUE}, message : {"denied", ""}, text : {"raw"}]

ResponseStatuses == {200, 204, 302, 399, 400, 401, 403, 404, 500, 503}

\* a request: whether the transport delivers it, and the response
RequestPool ==
    [who : {"request"}, delivered : BOOLEAN, status : ResponseStatuses, body : ResponseBodies]

\* api.py lines 12-40: what the wrapper raises for a request.
\* response.json().get('message', '') is the message field of an object, ''
\* when the object has none, and is no method of a list.
authorized_api_request(delivered, status, body) ==
    IF ~delivered
    THEN [raised |-> "ApiConnectionError", message |-> "Connection to Management Console failed"]
    ELSE IF status >= 400
    THEN IF body.json = "array"
         THEN [raised |-> "AttributeError", message |-> ""]
         ELSE [raised  |-> IF status = 401 THEN "ApiUnauthorizedError" ELSE "ApiError",
               message |-> IF body.json = "none" THEN body.text
                           ELSE IF body.has_message THEN body.message ELSE ""]
    ELSE [raised |-> "none", message |-> ""]

InitRequest == IdleSystem /\ query \in RequestPool /\ resolved = None

\* one request through the wrapper
Request ==
    /\ resolved = None
    /\ resolved' = [got |-> authorized_api_request(query.delivered, query.status, query.body)]
    /\ UNCHANGED <<system, directory, query>>

SpecRequest == InitRequest /\ [][Request]_vars

\* C22: for a response of status 400 or above the error raised carries the
\* message field of the body when the body has one and the raw text of the
\* response otherwise; it is the unauthorized kind for status 401 and the
\* generic kind for any other status.
C22_ErrorMessage ==
    (resolved # None /\ query.delivered /\ query.status >= 400) =>
        /\ resolved.got.raised = IF query.status = 401 THEN "ApiUnauthorizedError" ELSE "ApiError"
        /\ resolved.got.message =
             IF query.body.json = "object" /\ query.body.has_message
             THEN query.body.message
             ELSE query.body.text

----------------------------------------------------------------------------
(* C23: the paths of an agent entry *)

\* templates: the documented one, one for assets, one that repeats a
\* placeholder, one with a single placeholder, one without any, and one with
\* a placeholder the renderer does not know
TemplatePool ==
    { VarProject \o Slash \o VarSequence \o Slash \o VarShot,
      VarProject \o <<"/","l","i","b">>,
      VarShot \o Slash \o VarShot,
      <<"x","/">> \o VarSequence,
      <<"l","i","b">>,
      <<"$","{","J","O","B","}","/">> \o VarProject }

\* the path to build: of a shot job or an assets job, for primary storage or
\* for an artist, from this base_path and template and these values
PathPool ==
    [who      : {"path"},
     job      : {"shot", "assets"},
     role     : {"primary_storage", "enduser"},
     base     : {<<"/","n">>, None},
     template : TemplatePool,
     project  : {<<"P">>, <<"T","S","T">>},
     sequence : {<<"S","Q">>, <<"s","/","q">>},
     shot     : {<<"S","1">>, <<"S","_","2">>}]

\* a config with this base_path and this template
PathConfig(q) ==
    [primary_storage |-> [base_path |-> q.base],
     target_agents   |-> [a \in {"X"} |-> [base_path |-> q.base]],
     path_templates  |-> [shots_template |-> q.template, assets_template |-> q.template]]

\* lines 549, 555, 626, 632: the path the reconciler builds for the entry
BuiltPath(q) ==
    IF q.job = "shot"
    THEN IF q.role = "primary_storage"
         THEN build_primary_storage_path(PathConfig(q), q.project, q.sequence, q.shot)
         ELSE build_target_agent_path(PathConfig(q), "X", q.project, q.sequence, q.shot)
    ELSE IF q.role = "primary_storage"
         THEN build_primary_assets_path(PathConfig(q), q.project)
         ELSE build_target_assets_path(PathConfig(q), "X", q.project)

InitPaths == IdleSystem /\ query \in PathPool /\ resolved = None

\* the agent entry of one job is built
BuildPaths ==
    /\ resolved = None
    /\ resolved' = [got |-> IF query.role = "primary_storage"
                            THEN PrimaryAgent(1, BuiltPath(query))
                            ELSE EndUserAgent(42, BuiltPath(query))]
    /\ UNCHANGED <<system, directory, query>>

SpecPaths == InitPaths /\ [][BuildPaths]_vars

\* the values supplied for the placeholders of a job of this type
Supplied(q) ==
    IF q.job = "shot"
    THEN <<[var |-> VarProject, value |-> q.project],
           [var |-> VarSequence, value |-> q.sequence],
           [var |-> VarShot, value |-> q.shot]>>
    ELSE <<[var |-> VarProject, value |-> q.project]>>

\* the template read from left to right, each placeholder that has a value
\* giving way to its value and every other character kept
RECURSIVE Rendered(_, _)
Rendered(t, supplied) ==
    IF t = <<>> THEN <<>>
    ELSE LET hit == {k \in 1..Len(supplied) : StartsWith(t, supplied[k].var)}
         IN  IF hit = {} THEN <<Head(t)>> \o Rendered(Tail(t), supplied)
             ELSE LET k == CHOOSE x \in hit : TRUE
                  IN  supplied[k].value
                        \o Rendered(SubSeq(t, Len(supplied[k].var) + 1, Len(t)), supplied)

\* C23: the linux path of an agent entry is base_path, "/" and the template
\* with the placeholders that have a value replaced by it, a placeholder
\* without a value being left as it is; the osx path is the linux path; the
\* win path is the linux path with every / turned into a backslash and
\* nothing else changed.
C23_Paths ==
    resolved # None =>
        /\ resolved.got.path.linux
             = query.base \o <<"/">> \o Rendered(query.template, Supplied(query))
        /\ resolved.got.path.osx = resolved.got.path.linux
        /\ Len(resolved.got.path.win) = Len(resolved.got.path.linux)
        /\ \A i \in 1..Len(resolved.got.path.linux) :
             resolved.got.path.win[i]
               = IF resolved.got.path.linux[i] = "/" THEN "\\" ELSE resolved.got.path.linux[i]

\* the entry of an assets job whose template names the shot twice: the
\* placeholder stays, and the win path has three backslashes
C23_Witness ==
    /\ resolved # None
    /\ query.job = "assets"
    /\ query.template = VarShot \o Slash \o VarShot
    /\ query.base = <<"/","n">>
    /\ resolved.got.path.linux = <<"/","n","/">> \o VarShot \o Slash \o VarShot
    /\ Cardinality({i \in 1..Len(resolved.got.path.win) : resolved.got.path.win[i] = "\\"}) = 3

----------------------------------------------------------------------------
(* C24: the fields of the result *)

ResultFields ==
    {"shot_jobs_created", "shot_jobs_updated", "shot_jobs_deleted",
     "assets_jobs_created", "assets_jobs_updated", "assets_jobs_deleted",
     "artists_processed", "errors", "details"}

\* C24: the result of every run that returned, the run that returned early
\* included, has the six counters, artists_processed as a number, errors
\* and details.
C24_AllFields ==
    \A r \in Runs : Returned(r) =>
        /\ DOMAIN results[r] = ResultFields
        /\ DOMAIN results[r].artists_processed = {"int"}

----------------------------------------------------------------------------
(* Names that contain the separator or the assets word *)

\* shots whose tank name or code contains "_": P/S_1 and P_S/1 are different
\* shots, and the code of P/Assets_1 contains the word of the assets jobs
SeparatorShotPool ==
    { Shot(<<"P">>, <<"S","_","1">>, <<"A">>),
      Shot(<<"P","_","S">>, <<"1">>, <<"B">>),
      Shot(<<"P","_","S">>, <<"1">>, <<"C">>),
      Shot(<<"P">>, <<"A","s","s","e","t","s","_","1">>, <<"A">>),
      Shot(<<"P">>, <<"S","2">>, <<"B">>) }

\* jobs that may exist before the run
SeparatorRemotePool ==
    << [name |-> ShotJobName(<<"P">>, <<"A","s","s","e","t","s","_","1">>),
        agents |-> OldAgents(42)],
       [name |-> ShotJobName(<<"P">>, <<"S","2">>), agents |-> OldAgents(42)],
       [name |-> ShotJobName(<<"P">>, <<"S","_","1">>), agents |-> OldAgents(7)],
       [name |-> AssetsJobName(<<"P">>), agents |-> OldAgents(42)] >>

RECURSIVE PickFrom(_, _, _, _)
PickFrom(pool, chosen, k, acc) ==
    IF k > Len(pool) THEN acc
    ELSE IF k \in chosen
         THEN PickFrom(pool, chosen, k + 1,
                  Append(acc, RemoteJob(Len(acc) + 1, pool[k].name, pool[k].agents)))
         ELSE PickFrom(pool, chosen, k + 1, acc)

InitNames ==
    /\ cfg = "primary_by_id"
    /\ \E shots \in UNION {[1..n -> SeparatorShotPool] : n \in 0..MaxShots} :
          sg_state = [shots |-> shots,
                      artist_projects |-> ArtistProjectsOf(shots, 1, <<>>)]
    /\ \E chosen \in SUBSET (1..Len(SeparatorRemotePool)) :
          /\ Cardinality(chosen) <= MaxRemote
          /\ jobs = PickFrom(SeparatorRemotePool, chosen, 1, <<>>)
    /\ nextId = Len(jobs) + 1
    /\ failures = 0
    /\ pc = [r \in Runs |-> "idle"]
    /\ jobs_at_start = [r \in Runs |-> <<>>]
    /\ primary = [r \in Runs |-> 0]
    /\ existing_jobs = [r \in Runs |-> <<>>]
    /\ expected = [r \in Runs |-> EmptyDict]
    /\ plan = [r \in Runs |-> NoSets]
    /\ todo = [r \in Runs |-> NoSets]
    /\ pending = [r \in Runs |-> None]
    /\ results = [r \in Runs |-> None]
    /\ calls = [r \in Runs |-> <<>>]
    /\ directory = AgentDirectory
    /\ query = None
    /\ resolved = None

\* one run over such a snapshot and inventory
SpecNames == InitNames /\ [][Next]_vars

----------------------------------------------------------------------------
(* C25: what a deleted job is counted as *)

\* s.endswith(p)
EndsWith(s, p) == Len(s) >= Len(p) /\ SubSeq(s, Len(s) - Len(p) + 1, Len(s)) = p

\* the names of the jobs the run deleted with success
DeletedNames(r) ==
    {calls[r][i].name : i \in {k \in CallsOf(r, {"DELETE"}) : calls[r][k].outcome = "ok"}}

\* C25: a returned run has counted in assets_jobs_deleted the jobs it
\* deleted whose name ends with _Assets and in shot_jobs_deleted the other
\* jobs it deleted, one whose name has _Assets before its end included.
C25_DeleteCounts ==
    \A r \in Runs : (Completed(r) /\ UniqueNames(existing_jobs[r])) =>
        /\ results[r].assets_jobs_deleted
             = Cardinality({n \in DeletedNames(r) : EndsWith(n, AssetsSuffix)})
        /\ results[r].shot_jobs_deleted
             = Cardinality({n \in DeletedNames(r) : ~EndsWith(n, AssetsSuffix)})

----------------------------------------------------------------------------
(* C26: shots are told apart by project and code *)

\* the entry is the first of the snapshot with its project and code
FirstOfPair(i) ==
    \A j \in 1..(i - 1) :
        \/ sg_state.shots[j].project.tank_name # sg_state.shots[i].project.tank_name
        \/ sg_state.shots[j].code # sg_state.shots[i].code

\* no shot job of the run failed to build
ShotsResolved(r) ==
    \A k \in 1..Len(results[r].errors) : results[r].errors[k].op # "build_shot"

\* C26: when every agent is resolved, each pair of project and code whose
\* first entry has a configured artist has its own expected shot job, of
\* that project and that code.
C26_PairsKept ==
    \A r \in Runs : (Diffed(r) /\ ShotsResolved(r)) =>
        \A i \in 1..Len(sg_state.shots) :
            (FirstOfPair(i) /\ i \notin Unstaffed) =>
                \E n \in DOMAIN expected[r] :
                    /\ expected[r][n].type = "shot"
                    /\ expected[r][n].project = sg_state.shots[i].project.tank_name
                    /\ expected[r][n].shot = sg_state.shots[i].code

----------------------------------------------------------------------------
(* C27: jobs without the prefix are left alone *)

\* the jobs, as they were when the run was entered, that a request of the
\* run addresses by id
Addressed(r, i) ==
    {j \in 1..Len(jobs_at_start[r]) : jobs_at_start[r][j].id = calls[r][i].id}

\* C27: every job of a run's inventory has a name that starts with
\* HybridWork_, and every delete or update request of the run addresses a
\* job whose name starts with HybridWork_.
C27_OnlyPrefixed ==
    \A r \in Runs :
        /\ \A i \in 1..Len(existing_jobs[r]) :
             StartsWith(existing_jobs[r][i].name, HybridPrefix)
        /\ \A i \in CallsOf(r, {"DELETE", "GET_job", "PUT"}) :
             /\ StartsWith(calls[r][i].name, HybridPrefix)
             /\ \A j \in Addressed(r, i) :
                  StartsWith(jobs_at_start[r][j].name, HybridPrefix)

\* a run that deleted a job with success while a job without the prefix was
\* listed, and returned with that job still in place
C27_Witness ==
    \E r \in Runs :
        /\ Completed(r)
        /\ calls[r][1].outcome = "ok"
        /\ \E i \in CallsOf(r, {"DELETE"}) : calls[r][i].outcome = "ok"
        /\ \E j \in 1..Len(jobs_at_start[r]) :
             /\ ~StartsWith(jobs_at_start[r][j].name, HybridPrefix)
             /\ \E k \in 1..Len(jobs) : jobs[k] = jobs_at_start[r][j]

----------------------------------------------------------------------------
(* C28: one mutating request per job name and run *)

\* C28: among the delete, create and update requests of one run, no two
\* carry the same job name, whether the requests succeeded or failed.
C28_OncePerName ==
    \A r \in Runs :
        \A i, j \in CallsOf(r, Mutating) :
            calls[r][i].name = calls[r][j].name => i = j

\* a run that returned after a failed mutating request and a successful one
C28_Witness ==
    \E r \in Runs :
        /\ Completed(r)
        /\ FailedCalls(r) # {}
        /\ \E i \in CallsOf(r, Mutating) : calls[r][i].outcome = "ok"

----------------------------------------------------------------------------
(* C29: creation only of names the remote system does not hold *)

\* the names of the managed jobs of the remote system when the run was entered
ManagedAtStart(r) ==
    {jobs_at_start[r][j].name : j \in
        {k \in 1..Len(jobs_at_start[r]) :
            StartsWith(jobs_at_start[r][k].name, HybridPrefix)}}

\* C29: a run issues a create request only for a name that no HybridWork_
\* job of the remote system carried when the run was entered, also when the
\* inventory request of the run failed.
C29_CreateOnlyMissing ==
    \A r \in Runs :
        \A i \in CallsOf(r, {"POST"}) : calls[r][i].name \notin ManagedAtStart(r)

----------------------------------------------------------------------------
(* The webhook handlers: tracking-system query, then one run *)

EmptySnapshot == [shots |-> <<>>, artist_projects |-> <<>>]

\* the query either answers or raises
TrackingOutcomes == {"ok", "Fault"}

\* ShotGridStateManager.get_active_shots_with_assignments.  active_shots: the
\* active shots of the tracking system with their assignees; outcome: whether
\* the Shot and Task queries answer; lost: the shots whose Project query
\* raises, which are skipped for want of a tank_name.
get_active_shots_with_assignments(active_shots, outcome, lost) ==
    IF outcome = "ok"
    THEN LET shots_data == Without(active_shots, lost) IN
         [shots |-> shots_data,
          artist_projects |-> ArtistProjectsOf(shots_data, 1, <<>>)]
    ELSE EmptySnapshot

\* the webhook deliveries: a shot event about some attribute, or a task
\* assignment on a shot of some status
PayloadPool ==
    [route : {"shot_status"}, attribute_name : {"sg_status_list", "code"},
     shot_status : {"active"}]
    \cup [route : {"task_assignment"}, attribute_name : {"task_assignees"},
          shot_status : {"active", "ip"}]

\* a delivery is waiting, the tracking system holds its active shots, the
\* handler has no snapshot yet and the orchestration system holds its jobs
InitHandler ==
    /\ cfg = "primary_by_id"
    /\ sg_state = EmptySnapshot
    /\ \E payload \in PayloadPool, active_shots \in ShotLists :
          query = [payload |-> payload, active_shots |-> active_shots]
    /\ resolved = None
    /\ \E chosen \in SUBSET (1..Len(RemotePool)) :
          /\ Cardinality(chosen) <= MaxRemote
          /\ jobs = PickJobs(chosen, 1, <<>>)
    /\ nextId = Len(jobs) + 1
    /\ failures = 0
    /\ pc = [r \in Runs |-> "idle"]
    /\ jobs_at_start = [r \in Runs |-> <<>>]
    /\ primary = [r \in Runs |-> 0]
    /\ existing_jobs = [r \in Runs |-> <<>>]
    /\ expected = [r \in Runs |-> EmptyDict]
    /\ plan = [r \in Runs |-> NoSets]
    /\ todo = [r \in Runs |-> NoSets]
    /\ pending = [r \in Runs |-> None]
    /\ results = [r \in Runs |-> None]
    /\ calls = [r \in Runs |-> <<>>]
    /\ directory = AgentDirectory

\* the handler returns without a run
Declined(answer) ==
    /\ resolved' = [sync |-> FALSE, outcome |-> "ok", got |-> EmptySnapshot,
                    returned |-> answer]
    /\ UNCHANGED sg_state

\* sg_state = sg_state_manager.get_active_shots_with_assignments(), the
\* snapshot the run is then called with
Queried ==
    \E outcome \in TrackingOutcomes, lost \in SUBSET (1..Len(query.active_shots)) :
        /\ outcome # "ok" => lost = {}
        /\ sg_state' = get_active_shots_with_assignments(query.active_shots, outcome, lost)
        /\ resolved' = [sync |-> TRUE, outcome |-> outcome, got |-> sg_state',
                        returned |-> None]

\* _handle_shot_status up to its call of sync_resilio_to_shotgrid_state
handle_shot_status ==
    /\ resolved = None
    /\ query.payload.route = "shot_status"
    /\ IF query.payload.attribute_name # "sg_status_list"
       THEN Declined([ignored |-> TRUE])
       ELSE Queried
    /\ UNCHANGED <<cfg, jobs, nextId, failures, pc, jobs_at_start, primary, existing_jobs, expected, plan, todo, pending, results, calls, directory, query>>

\* _handle_task_assignment up to its call of sync_resilio_to_shotgrid_state
handle_task_assignment ==
    /\ resolved = None
    /\ query.payload.route = "task_assignment"
    /\ IF query.payload.shot_status # "active"
       THEN Declined([shot_status |-> query.payload.shot_status,
                      message |-> "Shot not active, no sync performed"])
       ELSE Queried
    /\ UNCHANGED <<cfg, jobs, nextId, failures, pc, jobs_at_start, primary, existing_jobs, expected, plan, todo, pending, results, calls, directory, query>>

\* the run a handler calls with its snapshot
HandlerRun ==
    /\ resolved # None
    /\ resolved.sync
    /\ Next

\* the keys of sync_results that the summary line of each handler reads
ShotStatusSummaryKeys ==
    {"shot_jobs_created", "shot_jobs_updated", "shot_jobs_hydrated",
     "assets_jobs_created", "assets_jobs_updated"}
TaskAssignmentSummaryKeys == {"shot_jobs_created", "shot_jobs_updated"}

\* what a handler returns once the run has returned sync_results: reading a
\* key that sync_results lacks raises KeyError, which the handler's except
\* clause turns into an error answer
HandlerAnswer(summary_keys, sync_results, answer) ==
    IF summary_keys \subseteq DOMAIN sync_results
    THEN answer
    ELSE [error |-> "KeyError"]

\* _handle_shot_status after sync_resilio_to_shotgrid_state has returned
shot_status_returns ==
    /\ resolved # None
    /\ resolved.sync
    /\ resolved.returned = None
    /\ query.payload.route = "shot_status"
    /\ pc[1] = "done"
    /\ resolved' = [resolved EXCEPT !.returned =
          HandlerAnswer(ShotStatusSummaryKeys \cup {"errors"}, results[1],
              [active_shots_found |-> Len(sg_state.shots),
               artists_found |-> Len(sg_state.artist_projects),
               sync_results |-> results[1]])]
    /\ UNCHANGED <<system, directory, query>>

\* _handle_task_assignment after sync_resilio_to_shotgrid_state has returned
task_assignment_returns ==
    /\ resolved # None
    /\ resolved.sync
    /\ resolved.returned = None
    /\ query.payload.route = "task_assignment"
    /\ pc[1] = "done"
    /\ resolved' = [resolved EXCEPT !.returned =
          HandlerAnswer(TaskAssignmentSummaryKeys, results[1],
              [shot_status |-> query.payload.shot_status,
               trigger_reason |-> "assignment_to_active_shot",
               sync_results |-> results[1]])]
    /\ UNCHANGED <<system, directory, query>>

NextHandler ==
    \/ handle_shot_status
    \/ handle_task_assignment
    \/ HandlerRun
    \/ shot_status_returns
    \/ task_assignment_returns

SpecHandler == InitHandler /\ [][NextHandler]_vars

\* C30: when the tracking-system query of a webhook handler has failed, the
\* handler issues no delete request against the orchestration system.
C30_NoDeleteAfterFailedQuery ==
    (resolved # None /\ resolved.outcome # "ok") =>
        \A r \in Runs : CallsOf(r, {"DELETE"}) = {}

----------------------------------------------------------------------------
(* C31: the answer of the shot-status handler *)

\* C31: once _handle_shot_status has returned after a run that returned a
\* result, its answer carries that result under sync_results and has no
\* error key.
C31_AnswerCarriesResult ==
    (/\ resolved # None
     /\ resolved.sync
     /\ query.payload.route = "shot_status"
     /\ resolved.returned # None) =>
        /\ "sync_results" \in DOMAIN resolved.returned
        /\ resolved.returned.sync_results = results[1]
        /\ "error" \notin DOMAIN resolved.returned

----------------------------------------------------------------------------
(* C32: details and counters *)

\* the details records of a run with this action
DetailsOf(r, action) ==
    {k \in 1..Len(results[r].details) : results[r].details[k].action = action}

\* the successful requests of a run with this method
Succeeded(r, op) == {i \in CallsOf(r, {op}) : calls[r][i].outcome = "ok"}

\* C32: at every point of a run, and so at its end, the number of details
\* records equals the sum of the six counters; for each of delete, create and
\* update, the two counters of the action add up to the number of details
\* records of that action and to the number of successful requests of that
\* action.
C32_DetailsMatchCounters ==
    \A r \in Runs :
        pc[r] # "idle" =>
            /\ Len(results[r].details)
                 = results[r].shot_jobs_created + results[r].assets_jobs_created
                   + results[r].shot_jobs_updated + results[r].assets_jobs_updated
                   + results[r].shot_jobs_deleted + results[r].assets_jobs_deleted
            /\ results[r].shot_jobs_deleted + results[r].assets_jobs_deleted
                 = Cardinality(DetailsOf(r, "deleted"))
            /\ results[r].shot_jobs_created + results[r].assets_jobs_created
                 = Cardinality(DetailsOf(r, "created"))
            /\ results[r].shot_jobs_updated + results[r].assets_jobs_updated
                 = Cardinality(DetailsOf(r, "updated"))
            /\ Cardinality(DetailsOf(r, "deleted")) = Cardinality(Succeeded(r, "DELETE"))
            /\ Cardinality(DetailsOf(r, "created")) = Cardinality(Succeeded(r, "POST"))
            /\ Cardinality(DetailsOf(r, "updated")) = Cardinality(Succeeded(r, "PUT"))

\* a run that returned after a successful delete, a successful create and a
\* failed request
C32_Witness ==
    \E r \in Runs :
        /\ Completed(r)
        /\ DetailsOf(r, "deleted") # {}
        /\ DetailsOf(r, "created") # {}
        /\ FailedCalls(r) # {}

----------------------------------------------------------------------------
(* C33: names of expected shot jobs and expected assets jobs *)

\* what Step 2 of a run has built when no request has failed
BuiltUndisturbed(r) == BuildExpectedJobs(Config(cfg), primary[r], sg_state, {})

\* C33: in a run none of whose requests has failed, no expected shot job has
\* the name of an expected assets job, and the merged expected map has as
\* many entries as shot jobs and assets jobs were built.
C33_NamesApart ==
    \A r \in Runs :
        (Diffed(r) /\ failures = 0) =>
            /\ (DOMAIN BuiltUndisturbed(r).expected_shot_jobs)
                 \cap (DOMAIN BuiltUndisturbed(r).expected_assets_jobs) = {}
            /\ Cardinality(DOMAIN expected[r])
                 = Cardinality(DOMAIN BuiltUndisturbed(r).expected_shot_jobs)
                   + Cardinality(DOMAIN BuiltUndisturbed(r).expected_assets_jobs)

----------------------------------------------------------------------------
(* The dispatcher *)

\* request bodies: two events, a JSON object without data, and bytes that
\* are not JSON
BodyPool == {"event_1", "event_2", "no_data", "not_json"}

\* hmac.new(SECRET_TOKEN, body, hashlib.sha1).hexdigest(): a string of
\* hexadecimal digits, different for different bodies
HexDigest(body) ==
    CASE body = "event_1"  -> <<"0", "a", "1">>
      [] body = "event_2"  -> <<"7", "f", "3">>
      [] body = "no_data"  -> <<"c", "4", "e">>
      [] body = "not_json" -> <<"9", "b", "2">>

Sha1Prefix == <<"s", "h", "a", "1", "=">>

\* the characters of a header value that are not ASCII
NonAscii == {"U+00E9"}

\* the values of X-SG-Signature tried with a body: none, the digest of the
\* body and of another body, each bare, with the sha1= prefix and with the
\* prefix twice, the prefix alone, the digest in capitals, a value with a
\* character that is not ASCII
SignaturesFor(body) ==
    { None,
      HexDigest(body),
      Sha1Prefix \o HexDigest(body),
      Sha1Prefix \o Sha1Prefix \o HexDigest(body),
      HexDigest(IF body = "event_1" THEN "event_2" ELSE "event_1"),
      Sha1Prefix \o HexDigest(IF body = "event_1" THEN "event_2" ELSE "event_1"),
      Sha1Prefix,
      <<"0", "A", "1">>,
      <<"0", "a", "U+00E9">> }

\* the last segment of the request path or the route of the entry point
KeyAssignment == <<"a","s","s","i","g","n","m","e","n","t">>
KeyShot       == <<"s","h","o","t">>
KeyShotStatus == <<"s","h","o","t","_","s","t","a","t","u","s">>
KeyShotDash   == <<"s","h","o","t","-","s","t","a","t","u","s">>

KeyPool ==
    { KeyAssignment, KeyShot, <<"S","h","o","t">>, KeyShotStatus, KeyShotDash,
      <<"h","y","d","r","a","t","e">> }

DispatchPool ==
    UNION {[body : {body}, sig : SignaturesFor(body), key : KeyPool] : body \in BodyPool}

\* _verify_sig(body, sig): "True" or "False", or "TypeError" when
\* hmac.compare_digest is given a string with a character that is not ASCII
verify_sig(body, sig) ==
    IF sig = None THEN "False"
    ELSE LET stripped == IF StartsWith(sig, Sha1Prefix)
                         THEN SubSeq(sig, 6, Len(sig))
                         ELSE sig
         IN  IF \E i \in 1..Len(stripped) : stripped[i] \in NonAscii
             THEN "TypeError"
             ELSE IF HexDigest(body) = stripped THEN "True" ELSE "False"

\* _dispatch(request, route): the status of the answer and the handler that
\* was invoked.  An exception that nothing catches is answered with 500.
dispatch(body, sig, key) ==
    CASE verify_sig(body, sig) = "TypeError" -> [status |-> 500, invoked |-> "none"]
      [] verify_sig(body, sig) = "False"     -> [status |-> 401, invoked |-> "none"]
      [] OTHER ->
           IF body = "not_json" THEN [status |-> 400, invoked |-> "none"]
           ELSE IF Lower(key) = KeyAssignment
           THEN [status |-> 200, invoked |-> "_handle_task_assignment"]
           ELSE IF Lower(key) \in {KeyShot, KeyShotStatus, KeyShotDash}
           THEN [status  |-> IF body = "no_data" THEN 500 ELSE 200,
                 invoked |-> "_handle_shot_status"]
           ELSE [status |-> 404, invoked |-> "none"]

InitDispatch == IdleSystem /\ query \in DispatchPool /\ resolved = None

\* one request is dispatched
Dispatch ==
    /\ resolved = None
    /\ resolved' = [got |-> dispatch(query.body, query.sig, query.key)]
    /\ UNCHANGED <<system, directory, query>>

SpecDispatch == InitDispatch /\ [][Dispatch]_vars

\* C34: a request whose X-SG-Signature is missing or is not the HMAC-SHA1 of
\* the body is answered with 401 and no handler is invoked.
C34_UnsignedRejected ==
    (resolved # None /\ (query.sig = None \/ query.sig # HexDigest(query.body))) =>
        /\ resolved.got.invoked = "none"
        /\ resolved.got.status = 401

----------------------------------------------------------------------------
(* C35: order of the steps of a run *)

\* the position of a request in the order build, delete, create, update
Phase(op) ==
    CASE op = "GET_jobs" -> 0
      [] op = "DELETE"   -> 1
      [] op = "POST"     -> 2
      [] OTHER           -> 3

----------------------------------------------------------------------------
(* C36: artists_processed *)

\* the artists of the jobs of a dictionary of expected jobs
ArtistsOfJobs(job_dict) == UNION {Range(job_dict[n].artists) : n \in DOMAIN job_dict}

\* the sets of directory requests that may have failed during Step 2
Downs(r) == {down \in SUBSET BuiltUndisturbed(r).asked : Cardinality(down) <= MaxFailures}

\* Step 2 with these failing requests
BuiltWith(r, down) == BuildExpectedJobs(Config(cfg), primary[r], sg_state, down)

\* built is what Step 2 of the run left: its expected jobs and the errors it
\* recorded first
BuiltLike(r, built) ==
    /\ built.all_expected_jobs = expected[r]
    /\ Len(results[r].errors) >= Len(built.errors)
    /\ SubSeq(results[r].errors, 1, Len(built.errors)) = built.errors

\* the artists of the shot jobs and assets jobs of built
BuiltArtists(built) ==
    ArtistsOfJobs(built.expected_shot_jobs) \cup ArtistsOfJobs(built.expected_assets_jobs)

\* the count of the run is the number of artists of the jobs of built, all of
\* them configured
ArtistsAgree(r, built_artists) ==
    /\ results[r].artists_processed = AsInt(Cardinality(built_artists))
    /\ built_artists \subseteq DOMAIN Config(cfg).target_agents

\* how built compares with a run: not what Step 2 of the run left, or what it
\* left with the count of the run agreeing or differing
Verdict(r, built) ==
    IF ~BuiltLike(r, built) THEN "other"
    ELSE IF ArtistsAgree(r, BuiltArtists(built)) THEN "agrees"
    ELSE "differs"

Sound(verdicts) == "agrees" \in verdicts /\ "differs" \notin verdicts

\* C36: in the result of a run that was not aborted, artists_processed is
\* the number of distinct artists of the shot jobs and assets jobs that were
\* built; all of them are configured in target_agents; and this holds
\* whatever the outcome of the delete, create and update requests.
C36_ArtistsCounted ==
    \A r \in Runs :
        Completed(r) => Sound({Verdict(r, BuiltWith(r, down)) : down \in Downs(r)})

\* a run that returned a count of at least one artist after a job whose
\* build failed, a failed request, and a shot with an artist that is not
\* configured
C36_Witness ==
    \E r \in Runs :
        /\ Completed(r)
        /\ FailedCalls(r) # {}
        /\ \E k \in 1..Len(results[r].errors) :
             results[r].errors[k].op \in {"build_shot", "build_assets"}
        /\ \E i \in 1..Len(sg_state.shots) : "C" \in Range(sg_state.shots[i].assigned_artists)
        /\ results[r].artists_processed.int >= 1

====
